---------------------------- MODULE Spec2Model ----------------------------
(***************************************************************************)
(* Model of the CC-Filtering pipeline.                                     *)
(*                                                                         *)
(*  - slurm-sequential-runner.py : the Job Orchestrator, which submits     *)
(*    one SLURM job per crawl date and polls squeue until it is gone       *)
(*    (specification SpecRun).                                             *)
(*  - common-crawl-processor.py : the Segment Processor, which downloads,  *)
(*    extracts and persists one WET segment per call (specification        *)
(*    SpecProc, with its heartbeat thread); its download_file and          *)
(*    process_wet_file are also run on their own, on arguments and         *)
(*    archives a whole run does not pass them (SpecFetch, SpecExtract).    *)
(*                                                                         *)
(* The two programs run as separate processes and share no state, so each  *)
(* specification moves its own variables and leaves the other's alone.     *)
(***************************************************************************)
EXTENDS Integers, Sequences, FiniteSets, TLC

\* Python's None.
None == "None"
\* An optional structured value: None is the empty tuple, a value x is <<x>>.
Nothing == <<>>
Some(x) == <<x>>

(***************************************************************************)
(*                 PART I.  slurm-sequential-runner.py                     *)
(***************************************************************************)

\* ---- bounds of the orchestrator's inputs --------------------------------
\* Longest epoch list (crawl_dates / n_files_list).
MaxEpochs == 2
\* File counts of an epoch: with the segments-per-task choices below they give
\* array sizes 0, 1 (also from the inexact 3 // 2) and 3.
NFilesChoices == {0, 1, 3}

\* Crawl date identifiers; two, so that a list may repeat a date.
CrawlDates == {"202104", "202110"}
\* --segments-per-task is an unchecked int: 0 is accepted by argparse.
SegmentsPerTaskChoices == {0, 1, 2}
\* Default of submit_and_wait_for_job's throttle parameter, which
\* process_crawl_data_sequentially never overrides.
DefaultThrottle == 10

VARIABLES
    \* ---- orchestrator inputs (arguments of process_crawl_data_sequentially)
    crawl_dates,        \* sequence of crawl date strings
    n_files_list,       \* sequence of file counts, same length
    segments_per_task,  \* int
    dry_run,            \* BOOLEAN
    \* ---- orchestrator locals
    opc,                \* position of the orchestrator in its code
    i,                  \* 1-based index of the epoch of the for loop
    slurm,              \* Some(the Slurm object built for the current epoch)
    job_id,             \* Some(job id sbatch returned for the current epoch)
    completed_job_ids,  \* list accumulated by the for loop
    returned,           \* Some(value process_crawl_data_sequentially returned)
    error,              \* exception that left process_crawl_data_sequentially, or None
    \* ---- the scheduler (external)
    jobs,               \* jobs accepted by sbatch, in order; job id = position
    live,               \* ids of the jobs still in the scheduler's queue
    sbatch_calls,       \* every sbatch call made, in order: [epoch, accepted]
    observed,           \* observed[k]: squeue results received while polling epoch k
    last_result,        \* result of the latest squeue call, or None
    array_tasks,        \* array task id -> segment_numbers of the processor started
                        \* for it, for the array tasks started so far
    \* ---- the file system under generated_scripts/
    generated_scripts,  \* function: script path -> script text
    script_writes,      \* path of every script file write, in order
    \* ---- the epoch manifest and the Progress Aggregator that reads it, too
    crawl_dates_file,   \* Some(lines of the crawl dates file), Nothing when missing
    total_segments,     \* Some(value ProgressTracker.get_total_segments returned),
                        \* Nothing before it is called
    current_crawl_date  \* Some([raised, date]: how get_current_crawl_date ended;
                        \* date is Some(epoch id), or Nothing for None), Nothing
                        \* before it is called

orchVars == <<crawl_dates, n_files_list, segments_per_task, dry_run, opc, i, slurm,
              job_id, completed_job_ids, returned, error, jobs, live, sbatch_calls,
              observed, last_result, array_tasks, generated_scripts, script_writes,
              crawl_dates_file, total_segments, current_crawl_date>>

VARIABLES
    \* ---- processor inputs
    crawl_date,          \* args.crawl_date
    wet_paths,           \* Some(lines of the wet.paths file), Nothing when it is missing
    postcode_lookup,     \* Some('pcds' values of the lookup), or Nothing for None
    segment_numbers,     \* main's list of segments to process
    max_retries,         \* download_file's max_retries argument
    initial_delay,       \* download_file's retry_delay argument
    \* ---- main / process_segment / download_file / process_wet_file locals
    ppc,                 \* position of the processor in its code
    seg_ix,              \* 1-based position of the for loop in segment_numbers
    successful_segments, \* main's counter
    attempt,             \* download_file's loop variable
    retry_delay,         \* download_file's current delay
    waits,               \* the time.sleep arguments of the current download, in order
    download_ok,         \* Some("True" / "False" / None: what download_file returned
                         \* in the current call), or Nothing
    downloaded,          \* Some(archive fetched by the current call), or Nothing
    results,             \* process_wet_file's list of rows
    returns,             \* value returned by every process_segment call, in order
    exit_code,           \* argument of sys.exit, or None
    \* ---- the file system under output_dir, and the calls that touch it
    fs,                  \* function: path -> content of the file
    call_log,            \* I/O operations of the current process_segment call
    \* ---- the disk check and the heartbeat thread
    free_gb,             \* Some(free_gb sampled by check_disk_space), Nothing before it
    main_log,            \* main's check_disk_space and download_file calls, in order
    keep_running,        \* heartbeat_thread.keep_running
    hb_pc,               \* position of the heartbeat thread in its code
    \* ---- another processor invocation running at the same time
    sibling              \* Some([date, segment, pc] of a process_segment call of
                         \* another process on the same output_dir), or Nothing

procVars == <<crawl_date, wet_paths, postcode_lookup, segment_numbers, max_retries,
              initial_delay, ppc, seg_ix, successful_segments, attempt, retry_delay,
              waits, download_ok, downloaded, results, returns, exit_code, fs, call_log,
              free_gb, main_log, keep_running, hb_pc, sibling>>

vars == <<orchVars, procVars>>

Min(a, b) == IF a < b THEN a ELSE b

\* for ... in enumerate(zip(crawl_dates, n_files_list)): zip stops at the shorter list.
NumEpochs == Min(Len(crawl_dates), Len(n_files_list))

\* create_template_command: string.Template(...).safe_substitute(variables); the
\* command is determined by the template and the three variables substituted.
create_template_command(date, n_files, spt) ==
    [date |-> date, n_files |-> n_files, segments_per_task |-> spt]

\* job_name = f"{job_name_prefix}_{date}"
JobName(date) == <<"batch_job", date>>

\* script_path = os.path.join("generated_scripts", f"{job_name}.sh")
ScriptPath(date) == <<"generated_scripts", JobName(date), ".sh">>

\* Mutant: the array size is rounded up.
ArraySizeRoundedUp(n_files, spt) == (n_files + spt - 1) \div spt

\* Python's n_files // segments_per_task for a non-negative n_files and a positive
\* segments_per_task (0 raises ZeroDivisionError and never gets here).
ArraySize(n_files, spt) == n_files \div spt

\* Mutant: the array directive is added from array_size >= 1 on.
ArrayDirectiveFromOne(n_files, spt, throttle) ==
    IF ArraySize(n_files, spt) >= 1
    THEN Some([first |-> 0, last |-> ArraySize(n_files, spt) - 1, limit |-> throttle])
    ELSE Nothing

\* if array_size > 1: slurm_params["array"] = f"0-{array_size - 1}%{throttle}"
\* (Nothing: slurm_params has no "array" entry)
ArrayDirective(n_files, spt, throttle) ==
    IF ArraySize(n_files, spt) > 1
    THEN Some([first |-> 0, last |-> ArraySize(n_files, spt) - 1, limit |-> throttle])
    ELSE Nothing

\* slurm = Slurm(**slurm_params); slurm.add_cmd(command)
BuildSlurm(date, n_files, spt, throttle) ==
    [job_name |-> JobName(date),
     array    |-> ArrayDirective(n_files, spt, throttle),
     cmd      |-> create_template_command(date, n_files, spt)]

\* All sequences over S of length 0..n.
SeqsUpTo(S, n) == UNION {[1..k -> S] : k \in 0..n}

\* The processor has not been started: the state of its variables in a run of
\* the orchestrator alone.
ProcessorNotStarted ==
    /\ crawl_date = None
    /\ wet_paths = Nothing
    /\ postcode_lookup = Nothing
    /\ segment_numbers = <<>>
    /\ max_retries = 0
    /\ initial_delay = 0
    /\ ppc = "not started"
    /\ seg_ix = 1
    /\ successful_segments = 0
    /\ attempt = 0
    /\ retry_delay = 0
    /\ waits = <<>>
    /\ download_ok = Nothing
    /\ downloaded = Nothing
    /\ results = <<>>
    /\ returns = <<>>
    /\ exit_code = None
    /\ fs = <<>>
    /\ call_log = <<>>
    /\ free_gb = Nothing
    /\ main_log = <<>>
    /\ keep_running = TRUE
    /\ hb_pc = "not started"
    /\ sibling = Nothing

\* The orchestrator has not been started: the state of its variables in a run
\* of the processor alone.
OrchestratorNotStarted ==
    /\ crawl_dates = <<>>
    /\ n_files_list = <<>>
    /\ segments_per_task = 0
    /\ dry_run = FALSE
    /\ opc = "not started"
    /\ i = 1
    /\ slurm = Nothing
    /\ job_id = Nothing
    /\ completed_job_ids = <<>>
    /\ returned = Nothing
    /\ error = None
    /\ jobs = <<>>
    /\ live = {}
    /\ sbatch_calls = <<>>
    /\ observed = [k \in 1..MaxEpochs |-> {}]
    /\ last_result = None
    /\ array_tasks = <<>>
    /\ generated_scripts = <<>>
    /\ script_writes = <<>>
    /\ crawl_dates_file = Nothing
    /\ total_segments = Nothing
    /\ current_crawl_date = Nothing

InitRun ==
    /\ \E n \in 0..MaxEpochs :
          /\ crawl_dates \in [1..n -> CrawlDates]
          /\ n_files_list \in [1..n -> NFilesChoices]
    /\ segments_per_task \in SegmentsPerTaskChoices
    /\ dry_run \in BOOLEAN
    /\ opc = "for"
    /\ i = 1
    /\ slurm = Nothing
    /\ job_id = Nothing
    /\ completed_job_ids = <<>>
    /\ returned = Nothing
    /\ error = None
    /\ jobs = <<>>
    /\ live = {}
    /\ sbatch_calls = <<>>
    /\ observed = [k \in 1..MaxEpochs |-> {}]
    /\ last_result = None
    /\ array_tasks = <<>>
    /\ generated_scripts = <<>>
    /\ script_writes = <<>>
    /\ crawl_dates_file = Nothing
    /\ total_segments = Nothing
    /\ current_crawl_date = Nothing
    /\ ProcessorNotStarted

schedVars == <<jobs, live, sbatch_calls, observed, last_result, array_tasks>>
scriptVars == <<generated_scripts, script_writes>>
\* What no step of process_crawl_data_sequentially touches: its arguments, the
\* manifest main read them from, and the aggregator.
inputVars == <<crawl_dates, n_files_list, segments_per_task, dry_run,
               crawl_dates_file, total_segments, current_crawl_date>>

\* Mutant: the list is returned as soon as one epoch is done.
ReturnJobIdsEarly ==
    /\ opc = "for"
    /\ i > 1
    /\ opc' = "returned"
    /\ returned' = Some(completed_job_ids)
    /\ UNCHANGED procVars
    /\ UNCHANGED <<inputVars, i, slurm, job_id, completed_job_ids, error,
                   schedVars, scriptVars>>

\* Line 170: the for loop is exhausted, return completed_job_ids.
ReturnJobIds ==
    /\ opc = "for"
    /\ i > NumEpochs
    /\ opc' = "returned"
    /\ returned' = Some(completed_job_ids)
    /\ UNCHANGED procVars
    /\ UNCHANGED <<inputVars, i, slurm, job_id, completed_job_ids, error,
                   schedVars, scriptVars>>

\* Line 47: array_size = n_files // segments_per_task with segments_per_task = 0
\* raises ZeroDivisionError, which nothing catches.
EpochZeroDivision ==
    /\ opc = "for"
    /\ i <= NumEpochs
    /\ segments_per_task = 0
    /\ opc' = "raised"
    /\ error' = "ZeroDivisionError"
    /\ UNCHANGED procVars
    /\ UNCHANGED <<inputVars, i, slurm, job_id, completed_job_ids, returned,
                   schedVars, scriptVars>>

\* Lines 47-85: build the Slurm object of epoch i (not dry-run: go on to sbatch).
EpochPrepare ==
    /\ opc = "for"
    /\ i <= NumEpochs
    /\ segments_per_task # 0
    /\ ~dry_run
    /\ opc' = "sbatch"
    /\ slurm' = Some(BuildSlurm(crawl_dates[i], n_files_list[i],
                                segments_per_task, DefaultThrottle))
    /\ UNCHANGED procVars
    /\ UNCHANGED <<inputVars, i, job_id, completed_job_ids, returned, error,
                   schedVars, scriptVars>>

\* Mutant: the dry-run branch falls through to the submission.
DryRunFallsThrough ==
    /\ opc = "for"
    /\ i <= NumEpochs
    /\ segments_per_task # 0
    /\ dry_run
    /\ slurm' = Some(BuildSlurm(crawl_dates[i], n_files_list[i],
                                segments_per_task, DefaultThrottle))
    /\ generated_scripts' =
          [p \in DOMAIN generated_scripts \cup {ScriptPath(crawl_dates[i])} |->
             IF p = ScriptPath(crawl_dates[i]) THEN slurm'[1] ELSE generated_scripts[p]]
    /\ script_writes' = Append(script_writes, ScriptPath(crawl_dates[i]))
    /\ opc' = "sbatch"
    /\ UNCHANGED procVars
    /\ UNCHANGED <<inputVars, i, job_id, completed_job_ids, returned, error,
                   schedVars>>

\* Lines 47-94 and 167: in dry-run mode write slurm.script() to
\* generated_scripts/<job_name>.sh, return None, append it, next epoch.
EpochDryRun ==
    /\ opc = "for"
    /\ i <= NumEpochs
    /\ segments_per_task # 0
    /\ dry_run
    /\ i' = i + 1
    /\ generated_scripts' =
          [p \in DOMAIN generated_scripts \cup {ScriptPath(crawl_dates[i])} |->
             IF p = ScriptPath(crawl_dates[i])
             THEN BuildSlurm(crawl_dates[i], n_files_list[i], segments_per_task,
                             DefaultThrottle)
             ELSE generated_scripts[p]]
    /\ script_writes' = Append(script_writes, ScriptPath(crawl_dates[i]))
    /\ completed_job_ids' = Append(completed_job_ids, None)
    /\ UNCHANGED procVars
    /\ UNCHANGED <<inputVars, opc, slurm, job_id, returned, error, schedVars>>

\* Line 97: job_id = slurm.sbatch() accepted by the scheduler.
SbatchOk ==
    /\ opc = "sbatch"
    /\ opc' = "poll"
    /\ sbatch_calls' = Append(sbatch_calls, [epoch |-> i, accepted |-> TRUE])
    /\ jobs' = Append(jobs, slurm[1])
    /\ job_id' = Some(Len(jobs) + 1)
    /\ live' = live \cup {Len(jobs) + 1}
    /\ UNCHANGED procVars
    /\ UNCHANGED <<inputVars, i, slurm, completed_job_ids, returned, error,
                   observed, last_result, array_tasks, scriptVars>>

\* Mutant: a failed submission is skipped and the loop goes on to the next epoch.
SbatchRaisesSkipped ==
    /\ opc = "sbatch"
    /\ sbatch_calls' = Append(sbatch_calls, [epoch |-> i, accepted |-> FALSE])
    /\ completed_job_ids' = Append(completed_job_ids, None)
    /\ i' = i + 1
    /\ opc' = "for"
    /\ UNCHANGED procVars
    /\ UNCHANGED <<inputVars, slurm, job_id, returned, error, jobs, live,
                   observed, last_result, array_tasks, scriptVars>>

\* Line 97: slurm.sbatch() raises; neither submit_and_wait_for_job nor
\* process_crawl_data_sequentially nor main catches it.
SbatchRaises ==
    /\ opc = "sbatch"
    /\ sbatch_calls' = Append(sbatch_calls, [epoch |-> i, accepted |-> FALSE])
    /\ opc' = "raised"
    /\ error' = "SbatchError"
    /\ UNCHANGED procVars
    /\ UNCHANGED <<inputVars, i, slurm, job_id, completed_job_ids, returned,
                   jobs, live, observed, last_result, array_tasks, scriptVars>>

\* What subprocess.run(["squeue", "-j", str(job_id)], check=True) can give:
\* the listing (which shows the job iff it is live), a non-zero exit
\* (CalledProcessError), or any other exception (squeue missing, OSError...).
SqueueResults(id) ==
    { [kind |-> "listing", stdout |-> live \cap {id}],
      [kind |-> "CalledProcessError", stdout |-> {}],
      [kind |-> "Exception", stdout |-> {}] }

\* Mutant: the test of line 110 is inverted.
JobCompletedInverted(id, result) ==
    CASE result.kind = "listing"            -> id \in result.stdout
      [] result.kind = "CalledProcessError" -> TRUE
      [] OTHER                              -> FALSE

\* Mutant: no exception of the status query ends the wait.
JobCompletedNoLeniency(id, result) ==
    CASE result.kind = "listing" -> id \notin result.stdout
      [] OTHER                   -> FALSE

\* Mutant: every exception of the status query ends the wait.
JobCompletedAnyError(id, result) ==
    CASE result.kind = "listing" -> id \notin result.stdout
      [] OTHER                   -> TRUE

\* Mutant: no query ever completes the job.
JobCompletedNever(id, result) == FALSE

\* Lines 103-121: the value job_completed gets from one pass of the while loop.
JobCompleted(id, result) ==
    CASE result.kind = "listing"            -> id \notin result.stdout
      [] result.kind = "CalledProcessError" -> TRUE
      [] OTHER                              -> FALSE

\* Lines 102-123 and 167: one squeue query of the while loop.  When it completes
\* the job, submit_and_wait_for_job returns job_id and the for loop appends it;
\* otherwise the loop sleeps check_interval seconds.
Poll ==
    /\ opc = "poll"
    /\ \E result \in SqueueResults(job_id[1]) :
          /\ last_result' = result.kind
          /\ observed' = [observed EXCEPT ![i] = @ \cup
                {IF result.kind = "listing"
                 THEN (IF job_id[1] \in result.stdout THEN "present" ELSE "absent")
                 ELSE result.kind}]
          /\ IF JobCompleted(job_id[1], result)
             THEN /\ completed_job_ids' = Append(completed_job_ids, job_id[1])
                  /\ i' = i + 1
                  /\ opc' = "for"
             ELSE /\ opc' = "sleep"
                  /\ UNCHANGED <<completed_job_ids, i>>
    /\ UNCHANGED procVars
    /\ UNCHANGED <<inputVars, slurm, job_id, returned, error, jobs, live,
                   sbatch_calls, array_tasks, scriptVars>>

\* Lines 115 and 121: time.sleep(check_interval), then the while loop again.
Sleep ==
    /\ opc = "sleep"
    /\ opc' = "poll"
    /\ UNCHANGED procVars
    /\ UNCHANGED <<inputVars, i, slurm, job_id, completed_job_ids, returned, error,
                   schedVars, scriptVars>>

\* The scheduler: a live job finishes (or is cancelled) at any time.
JobFinishes ==
    /\ \E j \in live : live' = live \ {j}
    /\ UNCHANGED procVars
    /\ UNCHANGED <<inputVars, opc, i, slurm, job_id, completed_job_ids, returned,
                   error, jobs, sbatch_calls, observed, last_result, array_tasks, scriptVars>>

\* The steps of the orchestrator itself.
OrchestratorStep ==
    \/ ReturnJobIds
    \/ EpochZeroDivision
    \/ EpochPrepare
    \/ EpochDryRun
    \/ SbatchOk
    \/ SbatchRaises
    \/ Poll
    \/ Sleep

NextRun == OrchestratorStep \/ JobFinishes

SpecRun == InitRun /\ [][NextRun]_vars

(***************************************************************************)
(*                  Properties of the orchestrator                         *)
(***************************************************************************)

\* The epoch whose submission produced job j: a rejected submission ends the
\* run, so the accepted submissions are those of epochs 1, 2, ... in order.
JobEpoch(j) == j

\* Throttle values submit_and_wait_for_job may be called with.
ThrottleChoices == {1, 10, 50}

C3_AnyQueryErrorFinishesEpoch ==
    [][(opc = "poll" /\ opc' # "poll"
        /\ last_result' \in {"CalledProcessError", "Exception"})
       => (opc' = "for" /\ i' = i + 1)]_vars

\* C3 (amended): a poll whose status query exits non-zero (CalledProcessError)
\* finishes the epoch: its job id is appended and the loop moves to the next
\* epoch.  A poll whose query fails with any other exception finishes nothing:
\* the loop sleeps and polls the same epoch again.
C3_SqueueExitFinishesOtherErrorsRetry ==
    [][(opc = "poll" /\ opc' # "poll")
       => /\ last_result' = "CalledProcessError"
               => /\ opc' = "for"
                  /\ i' = i + 1
                  /\ completed_job_ids' = Append(completed_job_ids, job_id[1])
          /\ last_result' = "Exception"
               => /\ opc' = "sleep"
                  /\ i' = i
                  /\ completed_job_ids' = completed_job_ids]_vars

\* C3 witness: epoch 1 was finished by a squeue error while its job was running,
\* and epoch 2 sleeps after a query that failed with another exception.
C3_Witness ==
    /\ i = 2
    /\ "CalledProcessError" \in observed[1]
    /\ 1 \in live
    /\ opc = "sleep"
    /\ last_result = "Exception"

\* C4: once an sbatch call has been rejected, it is the last sbatch call (no
\* retry, no later epoch), its epoch was never polled, the run has raised and
\* returned no list, and the orchestrator takes no further step.
C4_SubmissionFailureIsFatal ==
    \A c \in 1..Len(sbatch_calls) :
        ~sbatch_calls[c].accepted =>
            /\ c = Len(sbatch_calls)
            /\ \A d \in 1..(c - 1) : sbatch_calls[d].epoch < sbatch_calls[c].epoch
            /\ observed[sbatch_calls[c].epoch] = {}
            /\ opc = "raised"
            /\ error = "SbatchError"
            /\ returned = Nothing
            /\ Len(completed_job_ids) = sbatch_calls[c].epoch - 1
            /\ ~ENABLED OrchestratorStep

\* C4 witness: the submission of the first of two epochs was rejected.
C4_Witness ==
    /\ NumEpochs = 2
    /\ Len(sbatch_calls) = 1
    /\ ~sbatch_calls[1].accepted

\* C5: in a dry run nothing is ever submitted or queried; each epoch handled
\* has written exactly one script, at the path of its job name, holding the
\* script rendered for it, and has contributed the job id None.
C5_DryRun ==
    dry_run =>
        /\ sbatch_calls = <<>>
        /\ jobs = <<>>
        /\ live = {}
        /\ last_result = None
        /\ \A k \in 1..MaxEpochs : observed[k] = {}
        /\ opc \in {"for", "returned", "raised"}
        /\ Len(script_writes) = i - 1
        /\ completed_job_ids = [k \in 1..(i - 1) |-> None]
        /\ \A k \in 1..(i - 1) :
              /\ script_writes[k] = ScriptPath(crawl_dates[k])
              /\ ScriptPath(crawl_dates[k]) \in DOMAIN generated_scripts
        /\ i > 1 =>
              /\ generated_scripts[ScriptPath(crawl_dates[i - 1])].cmd =
                    [date |-> crawl_dates[i - 1], n_files |-> n_files_list[i - 1],
                     segments_per_task |-> segments_per_task]
              /\ generated_scripts[ScriptPath(crawl_dates[i - 1])].job_name =
                    JobName(crawl_dates[i - 1])
        /\ opc = "returned" => returned = Some([k \in 1..NumEpochs |-> None])

\* C5 witness: a dry run of two epochs has returned.
C5_Witness ==
    /\ dry_run
    /\ opc = "returned"
    /\ NumEpochs = 2
    /\ Len(script_writes) = 2

UpperLetters == <<"A","B","C","D","E","F","G","H","I","J","K","L","M",
                  "N","O","P","Q","R","S","T","U","V","W","X","Y","Z">>
LowerLetters == <<"a","b","c","d","e","f","g","h","i","j","k","l","m",
                  "n","o","p","q","r","s","t","u","v","w","x","y","z">>
Digits == {"0","1","2","3","4","5","6","7","8","9"}

Range(f) == {f[x] : x \in DOMAIN f}
Upper == Range(UpperLetters)
\* \w of Python's re for the characters used here.
WordChars == Upper \cup Range(LowerLetters) \cup Digits \cup {"_"}

\* s[a:b] of Python for 0 <= a <= b <= len(s), on 1-based sequences.
Slice(s, a, b) == [k \in 1..(b - a) |-> s[a + k]]

\* s.startswith(pre)
StartsWith(s, pre) == Len(s) >= Len(pre) /\ Slice(s, 0, Len(pre)) = pre

\* s.endswith(suf)
EndsWith(s, suf) ==
    Len(s) >= Len(suf) /\ Slice(s, Len(s) - Len(suf), Len(s)) = suf

\* The 0-based offsets at which sub occurs in s.
Occurrences(s, sub) ==
    {p \in 0..(Len(s) - Len(sub)) : Slice(s, p, p + Len(sub)) = sub}

\* sub in s
Contains(s, sub) == Occurrences(s, sub) # {}

SetMin(S) == CHOOSE x \in S : \A y \in S : x <= y

\* s.replace(old, "") : every non-overlapping occurrence, left to right, removed.
RECURSIVE Remove(_, _)
Remove(s, old) ==
    IF ~Contains(s, old) THEN s
    ELSE LET p == SetMin(Occurrences(s, old))
         IN  Slice(s, 0, p) \o Remove(Slice(s, p + Len(old), Len(s)), old)

\* c.lower() of one character
LowerChar(c) ==
    IF c \in Upper
    THEN LowerLetters[CHOOSE k \in DOMAIN UpperLetters : UpperLetters[k] = c]
    ELSE c

\* text.lower()
Lower(s) == [k \in DOMAIN s |-> LowerChar(s[k])]

\* ---- the postcode regular expression ---------------------------------------
\* [ABD-HJLNP-UW-Z]
InwardLetters == Upper \ {"C", "I", "K", "M", "O", "V"}

\* \b at offset p of s: exactly one side of the offset is a word character.
WordBoundary(s, p) ==
    (p > 0 /\ s[p] \in WordChars) # (p < Len(s) /\ s[p + 1] \in WordChars)

\* Whether r'\b[A-Z]{1,2}[0-9][A-Z0-9]? [0-9][ABD-HJLNP-UW-Z]{2}\b' matches s
\* at offset p with `letters` area letters and `opt` (0 or 1) optional characters.
MatchesWith(s, p, letters, opt) ==
    LET n == letters + 1 + opt + 4
    IN  /\ p + n <= Len(s)
        /\ WordBoundary(s, p)
        /\ \A k \in 1..letters : s[p + k] \in Upper
        /\ s[p + letters + 1] \in Digits
        /\ opt = 1 => s[p + letters + 2] \in Upper \cup Digits
        /\ s[p + letters + opt + 2] = " "
        /\ s[p + letters + opt + 3] \in Digits
        /\ s[p + letters + opt + 4] \in InwardLetters
        /\ s[p + letters + opt + 5] \in InwardLetters
        /\ WordBoundary(s, p + n)

\* The length of the match the backtracking matcher finds at offset p (greedy:
\* two letters before one, the optional character before none), or 0.
MatchLen(s, p) ==
    CASE MatchesWith(s, p, 2, 1) -> 8
      [] MatchesWith(s, p, 2, 0) -> 7
      [] MatchesWith(s, p, 1, 1) -> 7
      [] MatchesWith(s, p, 1, 0) -> 6
      [] OTHER -> 0

\* re.findall(pattern, text) from offset p: the non-overlapping matches, left
\* to right.
RECURSIVE FindAllFrom(_, _)
FindAllFrom(s, p) ==
    IF p >= Len(s) THEN <<>>
    ELSE IF MatchLen(s, p) > 0
         THEN <<Slice(s, p, p + MatchLen(s, p))>> \o FindAllFrom(s, p + MatchLen(s, p))
         ELSE FindAllFrom(s, p + 1)

re_findall(text) == FindAllFrom(text, 0)

\* All orders in which the elements of the finite set S can be listed:
\* list(set(...)) fixes no order.
RECURSIVE Listings(_)
Listings(S) ==
    IF S = {} THEN {<<>>}
    ELSE UNION {{<<x>> \o l : l \in Listings(S \ {x})} : x \in S}

\* Mutant: the gazetteer filter of line 68 is dropped.
Bristol_postcode_finder_NoLookup(text, pcds) ==
    {IF m = <<>> THEN Nothing ELSE Some(m) :
        m \in {SelectSeq(l, LAMBDA c : StartsWith(c, <<"B", "S">>)) :
                  l \in Listings(Range(re_findall(text)))}}

\* Bristol_postcode_finder(text, postcode_lookup) with postcode_lookup['pcds']
\* = pcds: the lists it may return (None when no postcode is left).
Bristol_postcode_finder(text, pcds) ==
    {IF m = <<>> THEN Nothing ELSE Some(m) :
        m \in {SelectSeq(SelectSeq(l, LAMBDA c : StartsWith(c, <<"B", "S">>)),
                         LAMBDA c : c \in pcds) :
                  l \in Listings(Range(re_findall(text)))}}

\* extract_website(url): re.sub(r'\.uk/.*', ".uk", url), then both schemes removed.
extract_website(url) ==
    LET cut == IF Contains(url, <<".", "u", "k", "/">>)
               THEN Slice(url, 0, SetMin(Occurrences(url, <<".", "u", "k", "/">>)) + 3)
               ELSE url
    IN  Remove(Remove(cut, <<"h","t","t","p","s",":","/","/">>),
               <<"h","t","t","p",":","/","/">>)

\* ---- bounds and inputs of the processor -------------------------------------
\* Longest manifest (lines of wet.paths).
MaxPaths == 2
\* Longest archive (records of a WET file) process_wet_file is applied to on
\* its own.
MaxRecords == 2
\* Longest archive a run of the whole processor downloads: what a run does
\* with an archive depends on the rows process_wet_file gets from it only.
MaxDownloadedRecords == 1
\* --task-id and --segments-per-task values of a processor invocation.
TaskIdChoices == {0, 1}
TaskSegmentsChoices == {1, 2}
\* --crawl-date of the processor invocation.
ProcCrawlDate == <<"2","0","2","1","0","4">>
\* download_file's defaults, which process_segment never overrides.
DefaultMaxRetries == 5
DefaultRetryDelay == 1
\* Most attempts download_file is allowed when it is called with other
\* arguments than the defaults.
MaxAttemptsBound == 4
\* retry_delay arguments of such calls (seconds).
DelayChoices == {0, 1, 3}
\* check_disk_space(min_gb=2) of line 195.
MinGb == 2
\* sys.exit(121) of line 197.
LowDiskExitCode == 121
\* free // (1024**3) as check_disk_space may sample it: below the minimum, one
\* short of it, and exactly the minimum.
FreeGbChoices == {0, 1, 2}

\* "BS1 1AA", "BS2 9ZZ": two Bristol postcodes.
PcBS1 == <<"B","S","1"," ","1","A","A">>
PcBS2 == <<"B","S","2"," ","9","Z","Z">>
\* "http://a.co.uk/p", "http://a.com/"
UriUk  == <<"h","t","t","p",":","/","/","a",".","c","o",".","u","k","/","p">>
UriCom == <<"h","t","t","p",":","/","/","a",".","c","o","m","/">>
\* "At BS1 1AA", "BS2 9ZZ BS1 1AA BS1 1AA", "B1 1AA x"
TextOne   == <<"A","t"," ">> \o PcBS1
TextTwo   == PcBS2 \o <<" ">> \o PcBS1 \o <<" ">> \o PcBS1
TextOther == <<"B","1"," ","1","A","A"," ","x">>

\* The records an archive is made of; uri is the WARC-Target-URI header
\* (Nothing when the record has none), language the
\* WARC-Identified-Content-Language header (None when it has none).
Records ==
    { [rec_type |-> "conversion", uri |-> Some(UriUk),  language |-> "eng", text |-> TextOne],
      [rec_type |-> "conversion", uri |-> Some(UriUk),  language |-> "eng", text |-> TextTwo],
      [rec_type |-> "conversion", uri |-> Some(UriUk),  language |-> "eng", text |-> TextOther],
      [rec_type |-> "conversion", uri |-> Some(UriCom), language |-> "eng", text |-> TextOne],
      [rec_type |-> "warcinfo",   uri |-> Nothing, language |-> None,  text |-> TextOne] }

\* A downloaded WET file: its records, and how many of them can be read before
\* the gzip/WARC reader raises (all of them: the file is sound, or damaged
\* only after its last record).
Archives ==
    UNION {{[records |-> r, readable |-> c] : c \in 0..Len(r)} :
              r \in SeqsUpTo(Records, MaxDownloadedRecords)}

\* Conversion records that lines 85-88 find ineligible for what their headers
\* lack: no WARC-Target-URI, no WARC-Identified-Content-Language, another
\* language.
HeaderlessRecords ==
    { [rec_type |-> "conversion", uri |-> Nothing,      language |-> "eng", text |-> TextOne],
      [rec_type |-> "conversion", uri |-> Some(UriUk),  language |-> None,  text |-> TextOne],
      [rec_type |-> "conversion", uri |-> Some(UriUk),  language |-> "fra", text |-> TextOne] }

\* The WET files process_wet_file is applied to on its own: of every kind of
\* record, sound or unreadable from some record on.
ExtractArchives ==
    UNION {{[records |-> r, readable |-> c] : c \in 0..Len(r)} :
              r \in SeqsUpTo(Records \cup HeaderlessRecords, MaxRecords)}

\* Files of output_dir.  A completely downloaded .wet.gz file: its bytes are
\* kept in `downloaded` for as long as the call that fetched it runs; no code
\* path reads a .wet.gz file left by an earlier call (a download overwrites
\* it, a failed download returns before the extractor).
WetFile == [kind |-> "wet", rows |-> <<>>]
\* A file that a failed write left behind.
PartialFile == [kind |-> "partial", rows |-> <<>>]
\* The artifact df.to_parquet writes for the rows.
ParquetFile(rows) == [kind |-> "parquet", rows |-> rows]

\* What load_postcode_lookup may give: None (Nothing), or the 'pcds' column.
LookupChoices == {Nothing, Some({PcBS1}), Some({PcBS1, PcBS2})}

\* ---- paths ------------------------------------------------------------------
DigitChars == <<"0","1","2","3","4","5","6","7","8","9">>

\* str(n) for n >= 0
RECURSIVE DecimalDigits(_)
DecimalDigits(n) ==
    IF n < 10 THEN <<DigitChars[n + 1]>>
    ELSE DecimalDigits(n \div 10) \o <<DigitChars[(n % 10) + 1]>>

\* digits left-padded with "0" to width w
RECURSIVE ZeroPad(_, _)
ZeroPad(d, w) == IF Len(d) >= w THEN d ELSE ZeroPad(<<"0">> \o d, w)

\* f"{segment_number:05d}": width 5 counts the sign.
SegmentStr(n) ==
    IF n >= 0 THEN ZeroPad(DecimalDigits(n), 5)
    ELSE <<"-">> \o ZeroPad(DecimalDigits(0 - n), 4)

\* File name extensions: ".wet.gz", ".parquet".
WetGzExt == <<".","w","e","t",".","g","z">>
ParquetExt == <<".","p","a","r","q","u","e","t">>

\* The name "crawldata<date>segment<segment_str><ext>", character by character.
FileName(date, segment_str, ext) ==
    <<"c","r","a","w","l","d","a","t","a">> \o date
        \o <<"s","e","g","m","e","n","t">> \o segment_str \o ext

\* Mutant: the artifact name leaves the segment number out.
ParquetPathNoSegment(date, n) ==
    <<"c","r","a","w","l","d","a","t","a">> \o date
        \o <<"s","e","g","m","e","n","t">> \o <<".","p","a","r","q","u","e","t">>

\* os.path.join(output_dir, f"crawldata{args.crawl_date}segment{segment_str}.wet.gz")
GzPath(date, n) ==
    <<"c","r","a","w","l","d","a","t","a">> \o date
        \o <<"s","e","g","m","e","n","t">> \o SegmentStr(n)
        \o <<".","w","e","t",".","g","z">>
\* os.path.join(output_dir, f"crawldata{args.crawl_date}segment{segment_str}.parquet")
ParquetPath(date, n) ==
    <<"c","r","a","w","l","d","a","t","a">> \o date
        \o <<"s","e","g","m","e","n","t">> \o SegmentStr(n)
        \o <<".","p","a","r","q","u","e","t">>

\* f with the file at path p set to content c
WriteFile(f, p, c) == [q \in DOMAIN f \cup {p} |-> IF q = p THEN c ELSE f[q]]
\* f without the file at path p
RemoveFile(f, p) == [q \in DOMAIN f \ {p} |-> f[q]]

\* ---- the manifest -------------------------------------------------------------
\* Line k (0-based) of a wet.paths file.
ManifestLine(k) == <<"wet", k>>
Manifest(n) == [k \in 1..n |-> ManifestLine(k - 1)]

Line(l) == [error |-> None, line |-> l]
NoLine(e) == [error |-> e, line |-> <<>>]

\* Mutant: an index past the end wraps around instead of failing.
ResolveLineWrapping(paths, n) ==
    IF paths = Nothing THEN NoLine("FileNotFoundError")
    ELSE IF Len(paths[1]) = 0 THEN NoLine("IndexError")
    ELSE Line(paths[1][(n % Len(paths[1])) + 1])

\* Lines 117-124: the manifest line of segment n, or why there is none.  Python
\* indexes a list from its end with a negative index.
ResolveLine(paths, n) ==
    IF paths = Nothing THEN NoLine("FileNotFoundError")
    ELSE IF n >= Len(paths[1]) THEN NoLine("OutOfRange")
    ELSE IF n < 0 - Len(paths[1]) THEN NoLine("IndexError")
    ELSE IF n < 0 THEN Line(paths[1][Len(paths[1]) + n + 1])
    ELSE Line(paths[1][n + 1])

\* urljoin(server_url, wet_path)
FileUrl(line) == <<"https://data.commoncrawl.org/", line>>

\* Lines 199-212: main's segment_numbers from --segment, or --task-id and
\* --segments-per-task.
SegmentNumbers(segment, task_id, spt) ==
    IF segment # Nothing THEN <<segment[1]>>
    ELSE [k \in 1..spt |-> task_id[1] * spt + k - 1]

\* ---- extraction ----------------------------------------------------------------
Rows(r) == [raised |-> FALSE, rows |-> r]
Raise == [raised |-> TRUE, rows |-> <<>>]

\* Lines 65-67: the distinct matches of the text that start with "BS".
BristolCandidates(text) ==
    {c \in Range(re_findall(text)) : StartsWith(c, <<"B", "S">>)}

\* Mutant: without a lookup every "BS" candidate counts as a match.
RecordOutcomesLookupOptional(rec, lookup) ==
    IF rec.rec_type # "conversion" THEN {Rows(<<>>)}
    ELSE IF rec.uri = Nothing THEN {Raise}
    ELSE IF ~(Contains(rec.uri[1], <<".","c","o",".","u","k","/">>)
              /\ rec.language = "eng")
         THEN {Rows(<<>>)}
    ELSE {IF pcs = Nothing THEN Rows(<<>>)
          ELSE Rows(<<[uri |-> rec.uri[1], website |-> extract_website(rec.uri[1]),
                       postcodes |-> pcs[1], text |-> Lower(rec.text)]>>) :
             pcs \in Bristol_postcode_finder(rec.text,
                        IF lookup = Nothing THEN BristolCandidates(rec.text)
                        ELSE lookup[1])}

\* Lines 84-101 for one record: the rows it may add (none, or one), or Raise
\* when handling it raises: `in` on a None uri, or indexing a None lookup,
\* which line 68 does once for every candidate the text has.
RecordOutcomes(rec, lookup) ==
    IF rec.rec_type # "conversion" THEN {Rows(<<>>)}
    ELSE IF rec.uri = Nothing THEN {Raise}
    ELSE IF ~(Contains(rec.uri[1], <<".","c","o",".","u","k","/">>)
              /\ rec.language = "eng")
         THEN {Rows(<<>>)}
    ELSE IF lookup = Nothing
         THEN IF BristolCandidates(rec.text) = {} THEN {Rows(<<>>)} ELSE {Raise}
    ELSE {IF pcs = Nothing THEN Rows(<<>>)
          ELSE Rows(<<[uri |-> rec.uri[1], website |-> extract_website(rec.uri[1]),
                       postcodes |-> pcs[1], text |-> Lower(rec.text)]>>) :
             pcs \in Bristol_postcode_finder(rec.text, lookup[1])}

\* Lines 79-103: the values `results` may have after the loop over the archive,
\* from record k on with acc collected so far.  An exception ends the loop and
\* is logged; what was collected stays in results.
RECURSIVE ResultsFrom(_, _, _, _)
ResultsFrom(archive, k, lookup, acc) ==
    IF k > Len(archive.records) THEN {acc}
    ELSE IF k > archive.readable THEN {acc}
    ELSE UNION {IF o.raised THEN {acc}
                ELSE ResultsFrom(archive, k + 1, lookup, acc \o o.rows) :
                   o \in RecordOutcomes(archive.records[k], lookup)}

\* process_wet_file's results for the file at path p holding `bytes`: gzip.open
\* of a missing file, or reading a half-written one, raises inside the try, too.
ExtractResults(f, p, bytes, lookup) ==
    IF p \notin DOMAIN f THEN {<<>>}
    ELSE IF f[p].kind # "wet" \/ bytes = Nothing THEN {<<>>}
    ELSE ResultsFrom(bytes[1], 1, lookup, <<>>)

\* ---- the processor's steps ---------------------------------------------------
\* Files a run may find in output_dir: nothing, or the artifact an earlier run
\* left for segment 0.
StaleRows == <<[uri |-> UriUk, website |-> extract_website(UriUk),
                postcodes |-> <<PcBS1>>, text |-> Lower(TextOne)]>>
InitialFiles(date) ==
    {<<>>, WriteFile(<<>>, ParquetPath(date, 0), ParquetFile(StaleRows))}

\* main's argument combinations: --segment s, or --task-id t with
\* --segments-per-task n.
SegmentNumberChoices ==
    {SegmentNumbers(Some(sg), Nothing, 1) : sg \in (0 - 1)..MaxPaths}
    \cup {SegmentNumbers(Nothing, Some(t), n) : t \in TaskIdChoices,
                                                  n \in TaskSegmentsChoices}

InitProc ==
    /\ OrchestratorNotStarted
    /\ crawl_date = ProcCrawlDate
    /\ wet_paths \in {Nothing} \cup {Some(Manifest(n)) : n \in 0..MaxPaths}
    /\ postcode_lookup \in LookupChoices
    /\ segment_numbers \in SegmentNumberChoices
    /\ max_retries = DefaultMaxRetries
    /\ initial_delay = DefaultRetryDelay
    /\ ppc = "start"
    /\ seg_ix = 1
    /\ successful_segments = 0
    /\ attempt = 0
    /\ retry_delay = 0
    /\ waits = <<>>
    /\ download_ok = Nothing
    /\ downloaded = Nothing
    /\ results = <<>>
    /\ returns = <<>>
    /\ exit_code = None
    /\ fs \in InitialFiles(crawl_date)
    /\ call_log = <<>>
    /\ free_gb = Nothing
    /\ main_log = <<>>
    /\ keep_running = TRUE
    /\ hb_pc = "while"
    /\ sibling = Nothing

procInputs == <<crawl_date, wet_paths, postcode_lookup, segment_numbers, max_retries,
                initial_delay>>

\* What no step of a process_segment call touches: the orchestrator, main's
\* disk sample, the stop flag, the heartbeat thread and the other processes.
outsideCall == <<orchVars, free_gb, keep_running, hb_pc, sibling>>
\* What only the disk check and the call of download_file add to.
callsMade == main_log

\* The segment of the current (or next) process_segment call.
segment_number == segment_numbers[seg_ix]
gz_filepath == GzPath(crawl_date, segment_number)
parquet_filepath == ParquetPath(crawl_date, segment_number)

\* The locals of download_file and process_wet_file are gone once
\* process_segment has returned.
LocalsDropped ==
    /\ attempt' = 0
    /\ retry_delay' = 0
    /\ waits' = <<>>
    /\ downloaded' = Nothing
    /\ results' = <<>>

\* Mutant: a segment that fails ends main's loop.
ReturnFalseEndsLoop ==
    /\ returns' = Append(returns, FALSE)
    /\ seg_ix' = Len(segment_numbers) + 1
    /\ ppc' = "main"
    /\ LocalsDropped
    /\ UNCHANGED successful_segments

\* process_segment returns False to main's loop (lines 218-220).
ReturnFalse ==
    /\ returns' = Append(returns, FALSE)
    /\ seg_ix' = seg_ix + 1
    /\ ppc' = "main"
    /\ LocalsDropped
    /\ UNCHANGED successful_segments

\* check_disk_space (lines 229-237) for a sample of free_gb.
check_disk_space(free, min_gb) == ~(free < min_gb)

\* Mutant: low disk space is only warned about and main goes on.
DiskCheckLowGoesOn ==
    /\ ppc = "start"
    /\ \E g \in FreeGbChoices :
          /\ ~check_disk_space(g, MinGb)
          /\ free_gb' = Some(g)
          /\ main_log' = Append(main_log, <<"check_disk_space", g>>)
    /\ ppc' = "main"
    /\ UNCHANGED <<procInputs, seg_ix, successful_segments, attempt, retry_delay,
                   waits, download_ok, downloaded, results, returns, exit_code, fs,
                   call_log, keep_running, hb_pc>>
    /\ UNCHANGED <<orchVars, sibling>>

\* Lines 188-197: the output directory and the lookup are there, the disk check
\* finds less than min_gb free: sys.exit(121).
DiskCheckLow ==
    /\ ppc = "start"
    /\ \E g \in FreeGbChoices :
          /\ ~check_disk_space(g, MinGb)
          /\ free_gb' = Some(g)
          /\ main_log' = Append(main_log, <<"check_disk_space", g>>)
    /\ ppc' = "exit"
    /\ exit_code' = LowDiskExitCode
    /\ UNCHANGED <<procInputs, seg_ix, successful_segments, attempt, retry_delay,
                   waits, download_ok, downloaded, results, returns, fs, call_log,
                   keep_running, hb_pc>>
    /\ UNCHANGED <<orchVars, sibling>>

\* Lines 188-215: the disk check passes; main goes on to its loop.
DiskCheckOk ==
    /\ ppc = "start"
    /\ \E g \in FreeGbChoices :
          /\ check_disk_space(g, MinGb)
          /\ free_gb' = Some(g)
          /\ main_log' = Append(main_log, <<"check_disk_space", g>>)
    /\ ppc' = "main"
    /\ UNCHANGED <<procInputs, seg_ix, successful_segments, attempt, retry_delay,
                   waits, download_ok, downloaded, results, returns, exit_code, fs,
                   call_log, keep_running, hb_pc>>
    /\ UNCHANGED <<orchVars, sibling>>

\* Lines 116-122, 151-153: the manifest cannot be read, or has no line for the
\* segment: process_segment returns False.
ResolveFails ==
    /\ ppc = "main"
    /\ seg_ix <= Len(segment_numbers)
    /\ ResolveLine(wet_paths, segment_number).error # None
    /\ call_log' = <<>>
    /\ download_ok' = Nothing
    /\ ReturnFalse
    /\ UNCHANGED <<procInputs, exit_code, fs>>
    /\ UNCHANGED <<outsideCall, callsMade>>

\* Lines 116-137: the segment resolves to a manifest line; download_file is
\* called for its URL.
ResolveOk ==
    /\ ppc = "main"
    /\ seg_ix <= Len(segment_numbers)
    /\ ResolveLine(wet_paths, segment_number).error = None
    /\ call_log' = <<<<"download", FileUrl(ResolveLine(wet_paths, segment_number).line),
                       gz_filepath>>>>
    /\ download_ok' = Nothing
    /\ attempt' = 0
    /\ retry_delay' = initial_delay
    /\ waits' = <<>>
    /\ main_log' = Append(main_log, <<"download_file", segment_number>>)
    /\ ppc' = "download"
    /\ UNCHANGED <<procInputs, seg_ix, successful_segments, downloaded, results,
                   returns, exit_code, fs>>
    /\ UNCHANGED outsideCall

\* The file system after a failed attempt: requests.get or raise_for_status
\* raised before the file was opened, or the copy broke off after open(.., 'wb')
\* created (or truncated) the file.
AfterFailedAttempt == {fs, WriteFile(fs, gz_filepath, PartialFile)}

\* Lines 43-50: an attempt succeeds, the whole body is in output_path, and
\* download_file returns True (its locals are gone).
DownloadOk ==
    /\ ppc = "download"
    /\ attempt < max_retries
    /\ fs' = WriteFile(fs, gz_filepath, WetFile)
    /\ downloaded' \in {Some(archive) : archive \in Archives}
    /\ download_ok' = Some("True")
    /\ attempt' = 0
    /\ retry_delay' = 0
    /\ waits' = <<>>
    /\ ppc' = "extract"
    /\ UNCHANGED <<procInputs, seg_ix, successful_segments, results, returns,
                   exit_code, call_log>>
    /\ UNCHANGED <<outsideCall, callsMade>>

\* Mutant: the first failure is final.
DownloadFailsRetryGivesUp ==
    /\ ppc = "download"
    /\ attempt < max_retries - 1
    /\ fs' \in AfterFailedAttempt
    /\ download_ok' = Some("False")
    /\ ReturnFalse
    /\ UNCHANGED <<procInputs, exit_code, call_log>>
    /\ UNCHANGED <<outsideCall, callsMade>>

\* Mutant: the delay is not doubled.
DownloadFailsRetryConstantDelay ==
    /\ ppc = "download"
    /\ attempt < max_retries - 1
    /\ fs' \in AfterFailedAttempt
    /\ waits' = Append(waits, retry_delay)
    /\ retry_delay' = retry_delay
    /\ attempt' = attempt + 1
    /\ UNCHANGED <<procInputs, ppc, seg_ix, successful_segments, download_ok,
                   downloaded, results, returns, exit_code, call_log>>
    /\ UNCHANGED <<outsideCall, callsMade>>

\* Lines 51-55: an attempt other than the last fails; sleep, double the delay.
DownloadFailsRetry ==
    /\ ppc = "download"
    /\ attempt < max_retries - 1
    /\ fs' \in AfterFailedAttempt
    /\ waits' = Append(waits, retry_delay)
    /\ retry_delay' = retry_delay * 2
    /\ attempt' = attempt + 1
    /\ UNCHANGED <<procInputs, ppc, seg_ix, successful_segments, download_ok,
                   downloaded, results, returns, exit_code, call_log>>
    /\ UNCHANGED <<outsideCall, callsMade>>

\* Mutant: process_segment ignores download_file's False and goes on.
DownloadFailsLastIgnored ==
    /\ ppc = "download"
    /\ attempt = max_retries - 1
    /\ fs' \in AfterFailedAttempt
    /\ download_ok' = Some("False")
    /\ attempt' = 0
    /\ retry_delay' = 0
    /\ waits' = <<>>
    /\ ppc' = "extract"
    /\ UNCHANGED <<procInputs, seg_ix, successful_segments, downloaded, results,
                   returns, exit_code, call_log>>
    /\ UNCHANGED <<outsideCall, callsMade>>

\* Lines 56-58 and 137-139: the last attempt fails; download_file returns False
\* and process_segment returns False at once.
DownloadFailsLast ==
    /\ ppc = "download"
    /\ attempt = max_retries - 1
    /\ fs' \in AfterFailedAttempt
    /\ download_ok' = Some("False")
    /\ ReturnFalse
    /\ UNCHANGED <<procInputs, exit_code, call_log>>
    /\ UNCHANGED <<outsideCall, callsMade>>

\* Lines 43 and 137-139: range(0) is empty, so no attempt is made, download_file
\* falls off its loop and returns None; `not None` makes process_segment return
\* False.
DownloadNoAttempt ==
    /\ ppc = "download"
    /\ max_retries = 0
    /\ download_ok' = Some(None)
    /\ ReturnFalse
    /\ UNCHANGED <<procInputs, exit_code, fs, call_log>>
    /\ UNCHANGED <<outsideCall, callsMade>>

\* Lines 142 and 79-103: process_wet_file reads the archive and collects the rows.
Extract ==
    /\ ppc = "extract"
    /\ results' \in ExtractResults(fs, gz_filepath, downloaded, postcode_lookup)
    /\ call_log' = Append(call_log, <<"read", gz_filepath>>)
    /\ ppc' = "persist"
    /\ UNCHANGED <<procInputs, seg_ix, successful_segments, attempt, retry_delay,
                   waits, download_ok, downloaded, returns, exit_code, fs>>
    /\ UNCHANGED <<outsideCall, callsMade>>

\* Mutant: the rows are appended to the artifact that is already there.
PersistWriteAppends ==
    /\ ppc = "persist"
    /\ results # <<>>
    /\ fs' = WriteFile(fs, parquet_filepath,
                       ParquetFile((IF parquet_filepath \in DOMAIN fs
                                    THEN fs[parquet_filepath].rows ELSE <<>>)
                                   \o results))
    /\ call_log' = Append(call_log, <<"to_parquet", parquet_filepath>>)
    /\ ppc' = "cleanup"
    /\ UNCHANGED <<procInputs, seg_ix, successful_segments, attempt, retry_delay,
                   waits, download_ok, downloaded, results, returns, exit_code>>
    /\ UNCHANGED <<outsideCall, callsMade>>

\* Lines 105-108: there are rows, and df.to_parquet(output_path) writes them.
PersistWrite ==
    /\ ppc = "persist"
    /\ results # <<>>
    /\ fs' = WriteFile(fs, parquet_filepath, ParquetFile(results))
    /\ call_log' = Append(call_log, <<"to_parquet", parquet_filepath>>)
    /\ ppc' = "cleanup"
    /\ UNCHANGED <<procInputs, seg_ix, successful_segments, attempt, retry_delay,
                   waits, download_ok, downloaded, results, returns, exit_code>>
    /\ UNCHANGED <<outsideCall, callsMade>>

\* Lines 105-107 and 151-153: df.to_parquet raises (disk full, no permission),
\* before or after it created the file; the exception leaves process_wet_file
\* and process_segment's handler returns False.
PersistRaises ==
    /\ ppc = "persist"
    /\ results # <<>>
    /\ fs' \in {fs, WriteFile(fs, parquet_filepath, PartialFile)}
    /\ call_log' = Append(call_log, <<"to_parquet", parquet_filepath>>)
    /\ ReturnFalse
    /\ UNCHANGED <<procInputs, download_ok, exit_code>>
    /\ UNCHANGED <<outsideCall, callsMade>>

\* Mutant: an empty frame is written, too.
PersistSkipWritesEmpty ==
    /\ ppc = "persist"
    /\ results = <<>>
    /\ fs' = WriteFile(fs, parquet_filepath, ParquetFile(<<>>))
    /\ call_log' = Append(call_log, <<"to_parquet", parquet_filepath>>)
    /\ ppc' = "cleanup"
    /\ UNCHANGED <<procInputs, seg_ix, successful_segments, attempt, retry_delay,
                   waits, download_ok, downloaded, results, returns, exit_code>>
    /\ UNCHANGED <<outsideCall, callsMade>>

\* Lines 109-110: no rows, nothing is written.
PersistSkip ==
    /\ ppc = "persist"
    /\ results = <<>>
    /\ ppc' = "cleanup"
    /\ UNCHANGED <<procInputs, seg_ix, successful_segments, attempt, retry_delay,
                   waits, download_ok, downloaded, results, returns, exit_code, fs,
                   call_log>>
    /\ UNCHANGED <<outsideCall, callsMade>>

\* Lines 144-149 and 219-220: remove the downloaded file if it exists, return
\* True; main counts the segment.
Cleanup ==
    /\ ppc = "cleanup"
    /\ IF gz_filepath \in DOMAIN fs
       THEN /\ fs' = RemoveFile(fs, gz_filepath)
            /\ call_log' = Append(call_log, <<"remove", gz_filepath>>)
       ELSE UNCHANGED <<fs, call_log>>
    /\ returns' = Append(returns, TRUE)
    /\ successful_segments' = successful_segments + 1
    /\ seg_ix' = seg_ix + 1
    /\ ppc' = "main"
    /\ LocalsDropped
    /\ UNCHANGED <<procInputs, download_ok, exit_code>>
    /\ UNCHANGED <<outsideCall, callsMade>>

\* Lines 222-224: every segment was attempted; the heartbeat's stop flag is
\* cleared and main starts its one-second sleep.
StopHeartbeat ==
    /\ ppc = "main"
    /\ seg_ix > Len(segment_numbers)
    /\ keep_running' = FALSE
    /\ ppc' = "stopping"
    /\ UNCHANGED <<procInputs, seg_ix, successful_segments, attempt, retry_delay,
                   waits, download_ok, downloaded, results, returns, exit_code, fs,
                   call_log, free_gb, main_log, hb_pc>>
    /\ UNCHANGED <<orchVars, sibling>>

\* Mutant: main joins the heartbeat thread before it exits.
ExitAfterJoin ==
    /\ ppc = "stopping"
    /\ hb_pc = "returned"
    /\ ppc' = "exit"
    /\ exit_code' = 0
    /\ UNCHANGED <<procInputs, seg_ix, successful_segments, attempt, retry_delay,
                   waits, download_ok, downloaded, results, returns, fs, call_log,
                   free_gb, main_log, keep_running, hb_pc>>
    /\ UNCHANGED <<orchVars, sibling>>

\* Mutant: main exits with 1 when a process_segment call returned False.
ExitReportsFailures ==
    /\ ppc = "stopping"
    /\ ppc' = "exit"
    /\ exit_code' = IF successful_segments < Len(segment_numbers) THEN 1 ELSE 0
    /\ UNCHANGED <<procInputs, seg_ix, successful_segments, attempt, retry_delay,
                   waits, download_ok, downloaded, results, returns, fs, call_log,
                   free_gb, main_log, keep_running, hb_pc>>
    /\ UNCHANGED <<orchVars, sibling>>

\* Lines 226-227: the sleep is over; sys.exit(0).  The heartbeat is a daemon
\* thread: the interpreter exits without it, wherever it is.
Exit ==
    /\ ppc = "stopping"
    /\ ppc' = "exit"
    /\ exit_code' = 0
    /\ UNCHANGED <<procInputs, seg_ix, successful_segments, attempt, retry_delay,
                   waits, download_ok, downloaded, results, returns, fs, call_log,
                   free_gb, main_log, keep_running, hb_pc>>
    /\ UNCHANGED <<orchVars, sibling>>

\* ---- the heartbeat thread (lines 35-39) ----------------------------------------
\* Everything but the heartbeat thread's own position.
mainVars == <<procInputs, ppc, seg_ix, successful_segments, attempt, retry_delay,
              waits, download_ok, downloaded, results, returns, exit_code, fs,
              call_log, free_gb, main_log, keep_running, sibling>>

\* The thread runs from line 186 until the process exits.
HeartbeatAlive == ppc \notin {"not started", "exit"}

\* Lines 37-39: keep_running is read true; the heartbeat is logged and the
\* thread goes to sleep for the interval.
HeartbeatLog ==
    /\ HeartbeatAlive
    /\ hb_pc = "while"
    /\ keep_running
    /\ hb_pc' = "sleep"
    /\ UNCHANGED <<orchVars, mainVars>>

\* Line 39: time.sleep(interval) is over.
HeartbeatWake ==
    /\ HeartbeatAlive
    /\ hb_pc = "sleep"
    /\ hb_pc' = "while"
    /\ UNCHANGED <<orchVars, mainVars>>

\* Line 37: keep_running is read false; the loop and the thread end.
HeartbeatReturn ==
    /\ HeartbeatAlive
    /\ hb_pc = "while"
    /\ ~keep_running
    /\ hb_pc' = "returned"
    /\ UNCHANGED <<orchVars, mainVars>>

\* A step of the main thread.
MainStep ==
    \/ DiskCheckLow
    \/ DiskCheckOk
    \/ ResolveFails
    \/ ResolveOk
    \/ DownloadOk
    \/ DownloadFailsRetry
    \/ DownloadFailsLast
    \/ Extract
    \/ PersistWrite
    \/ PersistRaises
    \/ PersistSkip
    \/ Cleanup
    \/ StopHeartbeat
    \/ Exit

\* A step of the heartbeat thread.
HeartbeatStep ==
    \/ HeartbeatLog
    \/ HeartbeatWake
    \/ HeartbeatReturn

NextProc == MainStep \/ HeartbeatStep

SpecProc == InitProc /\ [][NextProc]_vars

\* ---- download_file on its own ---------------------------------------------------
\* download_file(url, gz_filepath, max_retries, retry_delay) has just been called
\* for segment 0 of a one-line manifest, with any arguments in place of the
\* defaults.
InitFetch ==
    /\ OrchestratorNotStarted
    /\ crawl_date = ProcCrawlDate
    /\ wet_paths = Some(Manifest(1))
    /\ postcode_lookup = Some({PcBS1})
    /\ segment_numbers = <<0>>
    /\ max_retries \in 0..MaxAttemptsBound
    /\ initial_delay \in DelayChoices
    /\ ppc = "download"
    /\ seg_ix = 1
    /\ successful_segments = 0
    /\ attempt = 0
    /\ retry_delay = initial_delay
    /\ waits = <<>>
    /\ download_ok = Nothing
    /\ downloaded = Nothing
    /\ results = <<>>
    /\ returns = <<>>
    /\ exit_code = None
    /\ fs \in InitialFiles(crawl_date)
    /\ call_log = <<<<"download", FileUrl(ManifestLine(0)), GzPath(crawl_date, 0)>>>>
    /\ free_gb = Some(MinGb)
    /\ main_log = <<<<"check_disk_space", MinGb>>, <<"download_file", 0>>>>
    /\ keep_running = TRUE
    /\ hb_pc = "while"
    /\ sibling = Nothing

NextFetch ==
    \/ DownloadOk
    \/ DownloadFailsRetry
    \/ DownloadFailsLast
    \/ DownloadNoAttempt

SpecFetch == InitFetch /\ [][NextFetch]_vars

\* ---- process_wet_file on its own --------------------------------------------------
\* download_file has just returned True for segment 0 of a one-line manifest:
\* process_wet_file is applied to any archive, with any lookup.
InitExtract ==
    /\ OrchestratorNotStarted
    /\ crawl_date = ProcCrawlDate
    /\ wet_paths = Some(Manifest(1))
    /\ postcode_lookup \in LookupChoices
    /\ segment_numbers = <<0>>
    /\ max_retries = DefaultMaxRetries
    /\ initial_delay = DefaultRetryDelay
    /\ ppc = "extract"
    /\ seg_ix = 1
    /\ successful_segments = 0
    /\ attempt = 0
    /\ retry_delay = 0
    /\ waits = <<>>
    /\ download_ok = Some("True")
    /\ downloaded \in {Some(archive) : archive \in ExtractArchives}
    /\ results = <<>>
    /\ returns = <<>>
    /\ exit_code = None
    /\ \E f \in InitialFiles(crawl_date) : fs = WriteFile(f, GzPath(crawl_date, 0), WetFile)
    /\ call_log = <<<<"download", FileUrl(ManifestLine(0)), GzPath(crawl_date, 0)>>>>
    /\ free_gb = Some(MinGb)
    /\ main_log = <<<<"check_disk_space", MinGb>>, <<"download_file", 0>>>>
    /\ keep_running = TRUE
    /\ hb_pc = "while"
    /\ sibling = Nothing

NextExtract ==
    \/ Extract
    \/ PersistWrite
    \/ PersistRaises
    \/ PersistSkip
    \/ Cleanup

SpecExtract == InitExtract /\ [][NextExtract]_vars

(***************************************************************************)
(*                    Properties of the processor                          *)
(***************************************************************************)

\* A process_segment call has returned and none is running.
BetweenCalls == ppc \in {"start", "main", "stopping", "exit"}

\* The segment of the process_segment call that is running or, between calls,
\* of the one that returned last.
CallSegment ==
    IF BetweenCalls THEN segment_numbers[seg_ix - 1] ELSE segment_numbers[seg_ix]

\* The I/O operations of kind op in the current call's log.
Logged(op) == SelectSeq(call_log, LAMBDA e : e[1] = op)

\* C7 (as stated): when a process_segment call that reached the download has
\* returned, the segment's temporary .wet.gz file does not exist.
C7_NoTempFileAfterReturn ==
    (BetweenCalls /\ Len(returns) > 0 /\ Logged("download") # <<>>)
        => FileName(crawl_date, SegmentStr(CallSegment), WetGzExt)
              \notin DOMAIN fs

\* C8: a call writes at most one artifact, at the path named after the crawl
\* date and the zero-padded segment number; and no step of a call creates,
\* changes or removes any file other than that segment's .wet.gz and .parquet
\* files, the latter only by the logged artifact write.
C8_OneArtifactOwnPath ==
    /\ [](/\ Len(Logged("to_parquet")) <= 1
          /\ \A k \in 1..Len(Logged("to_parquet")) :
                Logged("to_parquet")[k][2] =
                    FileName(crawl_date, SegmentStr(CallSegment), ParquetExt))
    /\ [][/\ seg_ix > Len(segment_numbers) => fs' = fs
          /\ seg_ix <= Len(segment_numbers) =>
                LET own == FileName(crawl_date, SegmentStr(segment_numbers[seg_ix]), <<>>)
                IN  \A p \in DOMAIN fs \cup DOMAIN fs' :
                        /\ p \notin {own \o WetGzExt, own \o ParquetExt} =>
                              /\ p \in DOMAIN fs \cap DOMAIN fs'
                              /\ fs'[p] = fs[p]
                        /\ (/\ p = own \o ParquetExt
                            /\ ~(p \in DOMAIN fs \cap DOMAIN fs' /\ fs'[p] = fs[p])) =>
                              call_log' = Append(call_log, <<"to_parquet", p>>)]_vars

\* C8 witness: two calls of one run have each written their own artifact.
C8_Witness ==
    /\ ppc = "exit"
    /\ returns = <<TRUE, TRUE>>
    /\ Len(Logged("to_parquet")) = 1
    /\ ParquetPath(crawl_date, 0) \in DOMAIN fs
    /\ ParquetPath(crawl_date, 1) \in DOMAIN fs
    /\ fs[ParquetPath(crawl_date, 0)] # fs[ParquetPath(crawl_date, 1)]

\* C9: a call for a segment number >= the number of manifest lines returns
\* False in one step (of the main thread) that starts no download and leaves
\* every file as it was.
C9_OutOfRangeReturnsFalse ==
    [][(/\ ppc = "main"
        /\ seg_ix <= Len(segment_numbers)
        /\ wet_paths # Nothing
        /\ segment_numbers[seg_ix] >= Len(wet_paths[1])
        /\ hb_pc' = hb_pc)
       => /\ returns' = Append(returns, FALSE)
          /\ successful_segments' = successful_segments
          /\ ppc' = "main"
          /\ fs' = fs
          /\ call_log' = <<>>
          /\ download_ok' = Nothing]_vars

\* C9 witness: segments 2 and 3 of a two-line manifest were both refused.
C9_Witness ==
    /\ ppc = "exit"
    /\ wet_paths = Some(Manifest(2))
    /\ segment_numbers = <<2, 3>>
    /\ returns = <<FALSE, FALSE>>
    /\ call_log = <<>>

\* C10: once download_file has returned False, the call has returned False
\* without reading the archive and without an artifact write.
C10_FetchFailureIsTerminal ==
    download_ok = Some("False") =>
        /\ BetweenCalls
        /\ Len(returns) = seg_ix - 1
        /\ returns[Len(returns)] = FALSE
        /\ Logged("read") = <<>>
        /\ Logged("to_parquet") = <<>>
        /\ results = <<>>

\* C10 witness: the first segment was processed and the download of the second
\* failed on all its attempts.
C10_Witness ==
    /\ download_ok = Some("False")
    /\ returns = <<TRUE, FALSE>>
    /\ Len(Logged("download")) = 1

\* A step of a process_segment call is pending: the call is past its
\* download_file call and has not returned.
InCall == ppc \in {"download", "extract", "persist", "cleanup"}

\* C11: main attempts every segment of its list exactly once and in ascending
\* order, whatever the earlier calls returned: the calls that have returned
\* are those of the first seg_ix - 1 segments, one each; the call that is
\* running is the one for the next segment of the list; the list is
\* ascending; and main gets past its loop (and exits with 0) only when every
\* segment has had its call.
C11_EverySegmentAttemptedOnce ==
    /\ Len(returns) = seg_ix - 1
    /\ seg_ix <= Len(segment_numbers) + 1
    /\ \A k \in 1..(Len(segment_numbers) - 1) :
          segment_numbers[k + 1] = segment_numbers[k] + 1
    /\ InCall =>
          /\ seg_ix <= Len(segment_numbers)
          /\ Logged("download") =
                <<<<"download",
                    FileUrl(ResolveLine(wet_paths, segment_numbers[Len(returns) + 1]).line),
                    FileName(crawl_date, SegmentStr(segment_numbers[Len(returns) + 1]),
                             WetGzExt)>>>>
    /\ (ppc = "stopping" \/ (ppc = "exit" /\ exit_code = 0)) =>
          Len(returns) = Len(segment_numbers)

\* C11 witness: the first segment of a task failed and the second was
\* attempted and succeeded.
C11_Witness ==
    /\ ppc = "exit"
    /\ exit_code = 0
    /\ segment_numbers = <<0, 1>>
    /\ returns = <<FALSE, TRUE>>

\* C12: when process_wet_file is left with zero rows, the steps that follow
\* (the skipped write, then the cleanup) leave the file at the segment's
\* artifact path as it was, absent or not, make no artifact write, remove
\* the temporary .wet.gz file, and the call returns True.
C12_ZeroYieldWritesNothing ==
    [][(ppc \in {"persist", "cleanup"} /\ results = <<>>) =>
          LET own == FileName(crawl_date, SegmentStr(segment_numbers[seg_ix]), <<>>)
          IN  /\ (own \o ParquetExt \in DOMAIN fs')
                    = (own \o ParquetExt \in DOMAIN fs)
              /\ own \o ParquetExt \in DOMAIN fs =>
                    fs'[own \o ParquetExt] = fs[own \o ParquetExt]
              /\ SelectSeq(call_log', LAMBDA e : e[1] = "to_parquet") = <<>>
              /\ ppc = "persist" => (ppc' = "cleanup" /\ results' = <<>>)
              /\ ppc = "cleanup" =>
                    /\ ppc' = "main"
                    /\ returns' = Append(returns, TRUE)
                    /\ own \o WetGzExt \notin DOMAIN fs']_vars

\* C12 witness: a call whose archive gave no row has returned True; the
\* artifact an earlier run left at the segment's path is still what it was,
\* and the temporary file is gone.
C12_Witness ==
    /\ ppc = "main"
    /\ returns = <<TRUE>>
    /\ Logged("read") # <<>>
    /\ Logged("to_parquet") = <<>>
    /\ GzPath(crawl_date, 0) \notin DOMAIN fs
    /\ ParquetPath(crawl_date, 0) \in DOMAIN fs
    /\ fs[ParquetPath(crawl_date, 0)] = ParquetFile(StaleRows)

\* C13 (as stated): when reading the archive failed at some record, the
\* extraction has zero rows, whatever was read before the failure, and no
\* artifact write is made for the segment.
C13_CorruptPayloadYieldsZeroRows ==
    (/\ ppc \in {"persist", "cleanup"}
     /\ downloaded # Nothing
     /\ downloaded[1].readable < Len(downloaded[1].records)) =>
        /\ results = <<>>
        /\ Logged("to_parquet") = <<>>

\* C14: download_file never raises and returns only as follows.  Every step of
\* a running download_file is a failed attempt that is retried or a return.
\* It returns True on the success of an attempt among the first max_retries,
\* with the whole file written; it returns a false value (False, or None when
\* max_retries is 0 and the loop body never runs) only when the failed
\* attempts number exactly max_retries; and nothing is attempted after a
\* return.  `attempt` counts the failed attempts made so far.
C14_FetcherOutcome ==
    /\ [](ppc = "download" => (attempt < max_retries \/ max_retries = 0))
    /\ [][ppc = "download" =>
            \/ /\ ppc' = "download"
               /\ download_ok' = Nothing
               /\ attempt' = attempt + 1
               /\ attempt' < max_retries
            \/ /\ download_ok' = Some("True")
               /\ attempt < max_retries
               /\ fs'[FileName(crawl_date, SegmentStr(0), WetGzExt)]
                     = WetFile
               /\ downloaded' # Nothing
            \/ /\ download_ok' \in {Some("False"), Some(None)}
               /\ (IF max_retries = 0 THEN attempt ELSE attempt + 1) = max_retries
               /\ returns' = <<FALSE>>
               /\ downloaded' = Nothing]_vars
    /\ [][download_ok # Nothing =>
            (download_ok' = download_ok /\ attempt' = attempt /\ fs' = fs)]_vars

\* C14 witness: download_file was allowed four attempts, all failed, the last
\* one after it had created the file; it returned False.
C14_Witness ==
    /\ max_retries = 4
    /\ download_ok = Some("False")
    /\ returns = <<FALSE>>
    /\ GzPath(crawl_date, 0) \in DOMAIN fs
    /\ fs[GzPath(crawl_date, 0)] = PartialFile

\* 2^n
RECURSIVE Pow2(_)
Pow2(n) == IF n = 0 THEN 1 ELSE 2 * Pow2(n - 1)

\* The sum of a sequence of numbers.
RECURSIVE SumSeq(_)
SumSeq(q) == IF q = <<>> THEN 0 ELSE q[1] + SumSeq(Tail(q))

\* C15: while download_file runs, one wait has been made after each failed
\* attempt so far, the wait after the n-th (from 0) being retry_delay * 2^n;
\* a wait is only made after an attempt that is not the last permitted one;
\* and when an attempt succeeds after k failures the waits made add up to
\* retry_delay * (2^k - 1).
C15_BackoffSchedule ==
    /\ [](ppc = "download" =>
            /\ Len(waits) = attempt
            /\ \A n \in 0..(Len(waits) - 1) : waits[n + 1] = initial_delay * Pow2(n)
            /\ Len(waits) <= (IF max_retries = 0 THEN 0 ELSE max_retries - 1))
    /\ [][(ppc = "download" /\ waits' # waits /\ waits' # <<>>) =>
            /\ attempt < max_retries - 1
            /\ waits' = Append(waits, initial_delay * Pow2(attempt))]_vars
    /\ [][(ppc = "download" /\ download_ok' = Some("True")) =>
            /\ attempt < max_retries
            /\ SumSeq(waits) >= initial_delay * (Pow2(attempt) - 1)
            /\ SumSeq(waits) = initial_delay * (Pow2(attempt) - 1)]_vars

\* C15 witness: with an initial delay of 3 and four attempts allowed, three
\* attempts failed and the waits were 3, 6 and 12; the last attempt is due.
C15_Witness ==
    /\ ppc = "download"
    /\ max_retries = 4
    /\ initial_delay = 3
    /\ attempt = 3
    /\ waits = <<3, 6, 12>>
    /\ retry_delay = 24

\* The eligibility predicate of lines 84-88: a conversion record whose target
\* URI is there and contains ".co.uk/", and whose declared language is "eng".
Eligible(rec) ==
    /\ rec.rec_type = "conversion"
    /\ rec.uri # Nothing
    /\ Contains(rec.uri[1], <<".","c","o",".","u","k","/">>)
    /\ rec.language = "eng"

\* The archive without its ineligible records; what could be read of it is
\* what could be read of the eligible ones.
EligibleOnly(archive) ==
    [records  |-> SelectSeq(archive.records, Eligible),
     readable |-> Len(SelectSeq(SubSeq(archive.records, 1, archive.readable), Eligible))]

\* C16 (as stated): the rows extracted from an archive are rows the same
\* archive gives with its ineligible records left out: an ineligible record
\* adds no row and changes nothing about the rows of the other records.
C16_IneligibleRecordsSkipped ==
    (ppc = "persist" /\ downloaded # Nothing) =>
        results \in ResultsFrom(EligibleOnly(downloaded[1]), 1, postcode_lookup, <<>>)

\* The records of the archive that the loop of lines 83-101 gets to handle:
\* those read before the reader fails and before a conversion record without
\* a target URI makes line 88 raise.
ReachedRecords(archive) ==
    LET stops == {k \in 1..archive.readable :
                     /\ archive.records[k].rec_type = "conversion"
                     /\ archive.records[k].uri = Nothing}
    IN  SubSeq(archive.records, 1,
               IF stops = {} THEN archive.readable ELSE SetMin(stops) - 1)

\* The matches of the text that start with "BS" and are in the gazetteer.
MatchSet(text, pcds) ==
    {c \in Range(re_findall(text)) : StartsWith(c, <<"B", "S">>) /\ c \in pcds}

C18_AbsentGazetteerDegrades ==
    postcode_lookup = Nothing =>
        /\ results = <<>>
        /\ Logged("to_parquet") = <<>>
        /\ \A p \in DOMAIN fs :
              EndsWith(p, ParquetExt) =>
                  /\ p = FileName(crawl_date, SegmentStr(0), ParquetExt)
                  /\ fs[p] = ParquetFile(StaleRows)
        /\ (BetweenCalls /\ download_ok = Some("True")) =>
              returns[Len(returns)] = TRUE
        /\ (ppc = "exit" /\ check_disk_space(free_gb[1], MinGb)) =>
              /\ exit_code = 0
              /\ Len(returns) = Len(segment_numbers)

\* C18 witness: without a lookup, the first segment's call returned True and
\* the second segment's archive, which has an eligible record with a "BS"
\* code in its text, was extracted to no row.
C18_Witness ==
    /\ postcode_lookup = Nothing
    /\ returns = <<TRUE>>
    /\ ppc = "cleanup"
    /\ downloaded # Nothing
    /\ \E k \in 1..downloaded[1].readable :
          /\ Eligible(downloaded[1].records[k])
          /\ BristolCandidates(downloaded[1].records[k].text) # {}
    /\ results = <<>>

\* C19: the disk check comes first: until it is made nothing has been read,
\* downloaded or written; when it finds less than the minimum the processor
\* has exited with code 121 with no process_segment call made, no download
\* started and the output directory as it was found; and code 121 is the
\* exit code of no other run.
C19_DiskGuardFailsFast ==
    /\ (ppc = "start") = (free_gb = Nothing)
    /\ (ppc = "start" \/ (free_gb # Nothing /\ free_gb[1] < 2)) =>
          /\ returns = <<>>
          /\ seg_ix = 1
          /\ call_log = <<>>
          /\ download_ok = Nothing
          /\ downloaded = Nothing
          /\ fs \in InitialFiles(crawl_date)
    /\ (free_gb # Nothing /\ free_gb[1] < 2) => (ppc = "exit" /\ exit_code = 121)
    /\ (ppc = "exit" /\ exit_code = 121) => free_gb[1] < 2

\* C19 witness: the check found 1 GB free; the processor exited with 121 and
\* the artifact of an earlier run is all there is in the output directory.
C19_Witness ==
    /\ ppc = "exit"
    /\ exit_code = 121
    /\ free_gb = Some(1)
    /\ segment_numbers = <<0, 1>>
    /\ returns = <<>>
    /\ DOMAIN fs = {ParquetPath(crawl_date, 0)}

\* C20: the main thread never waits for the heartbeat thread: as long as the
\* process has not exited the main thread has a step it can take, wherever
\* the heartbeat thread is (for the extraction step: process_wet_file has a
\* list of rows to return); the stop flag is cleared only when the loop has
\* made its call for every segment; and once it is cleared the exit can be
\* taken at once, also while the heartbeat thread sleeps.
C20_HeartbeatNeverBlocksMain ==
    /\ ppc \notin {"exit", "extract"} =>
          ENABLED (\/ DiskCheckLow \/ DiskCheckOk
                   \/ ResolveFails \/ ResolveOk
                   \/ DownloadOk \/ DownloadFailsRetry \/ DownloadFailsLast
                   \/ PersistWrite \/ PersistRaises \/ PersistSkip
                   \/ Cleanup \/ StopHeartbeat \/ Exit)
    /\ ppc = "extract" =>
          ExtractResults(fs, gz_filepath, downloaded, postcode_lookup) # {}
    /\ ~keep_running =>
          /\ ppc \in {"stopping", "exit"}
          /\ seg_ix = Len(segment_numbers) + 1
          /\ Len(returns) = Len(segment_numbers)
    /\ ppc = "stopping" => ENABLED Exit
    /\ hb_pc \in {"while", "sleep", "returned"}
    /\ hb_pc = "returned" => ~keep_running

\* C20 witness: the process has exited with 0 after both its segments while
\* the heartbeat thread was in its sleep.
C20_Witness ==
    /\ ppc = "exit"
    /\ exit_code = 0
    /\ Len(returns) = 2
    /\ ~keep_running
    /\ hb_pc = "sleep"

\* ---- the disk check and the downloads of one invocation -------------------------
\* C21 (as stated): in an invocation that handles several segments every
\* download_file call is preceded by a disk check of its own: the call main
\* made just before it is a check_disk_space whose sample is not below the
\* minimum.
C21_DiskCheckPrecedesEveryDownload ==
    Len(segment_numbers) > 1 =>
        \A k \in 1..Len(main_log) :
            main_log[k][1] = "download_file" =>
                /\ k > 1
                /\ main_log[k - 1][1] = "check_disk_space"
                /\ check_disk_space(main_log[k - 1][2], MinGb)

\* C22 (as stated): df.to_parquet is called only after the pass over the
\* archive has ended, and no file at an artifact name is ever a partly
\* written one: whatever is at the artifact path of a segment is a complete
\* parquet file.
C22_NoPartialArtifact ==
    /\ Logged("to_parquet") # <<>> =>
          /\ Logged("read") # <<>>
          /\ call_log[Len(call_log)][1] # "read"
    /\ \A k \in 1..Len(segment_numbers) :
          ParquetPath(crawl_date, segment_numbers[k]) \in DOMAIN fs =>
              fs[ParquetPath(crawl_date, segment_numbers[k])].kind = "parquet"

(***************************************************************************)
(*          PART III.  The array tasks of a submitted epoch job            *)
(***************************************************************************)

\* Largest file count of the epoch and largest --segments-per-task of a
\* submitted job whose array tasks are followed.
MaxSegmentCount == 7
MaxSegmentsPerTask == 3

\* Everything of the orchestrator but the array tasks started.
orchButTasks == <<inputVars, opc, i, slurm, job_id, completed_job_ids, returned,
                  error, jobs, live, sbatch_calls, observed, last_result, scriptVars>>

\* The orchestrator has just submitted the job of its only epoch (lines 47-98)
\* and starts polling; no task of the job has started.
InitArray ==
    /\ crawl_dates = <<"202104">>
    /\ n_files_list \in {<<n>> : n \in 0..MaxSegmentCount}
    /\ segments_per_task \in 1..MaxSegmentsPerTask
    /\ dry_run = FALSE
    /\ opc = "poll"
    /\ i = 1
    /\ slurm = Some(BuildSlurm(crawl_dates[1], n_files_list[1],
                               segments_per_task, DefaultThrottle))
    /\ job_id = Some(1)
    /\ completed_job_ids = <<>>
    /\ returned = Nothing
    /\ error = None
    /\ jobs = <<slurm[1]>>
    /\ live = {1}
    /\ sbatch_calls = <<[epoch |-> 1, accepted |-> TRUE]>>
    /\ observed = [k \in 1..MaxEpochs |-> {}]
    /\ last_result = None
    /\ array_tasks = <<>>
    /\ generated_scripts = <<>>
    /\ script_writes = <<>>
    /\ crawl_dates_file = Nothing
    /\ total_segments = Nothing
    /\ current_crawl_date = Nothing
    /\ ProcessorNotStarted

\* The scheduler starts task t of a live array job: the job's command runs the
\* processor with --task-id t and the --segments-per-task of the command, and
\* main computes segment_numbers (processor lines 204-209).
ArrayTaskStarts ==
    /\ \E j \in live :
          /\ jobs[j].array # Nothing
          /\ \E t \in (jobs[j].array[1].first)..(jobs[j].array[1].last) :
                /\ t \notin DOMAIN array_tasks
                /\ array_tasks' =
                      [u \in DOMAIN array_tasks \cup {t} |->
                         IF u = t
                         THEN SegmentNumbers(Nothing, Some(t),
                                             jobs[j].cmd.segments_per_task)
                         ELSE array_tasks[u]]
    /\ UNCHANGED orchButTasks
    /\ UNCHANGED procVars

NextArray == ArrayTaskStarts

SpecArray == InitArray /\ [][NextArray]_vars

\* The segments the array tasks started so far process.
Covered == UNION {Range(array_tasks[t]) : t \in DOMAIN array_tasks}

SiblingDates ==
    {ProcCrawlDate,
     <<"2","0","2","1","0">>,
     ProcCrawlDate \o <<"s","e","g","m","e","n","t","0","0","0","0","1">>}
\* Segments of the other invocation; the last one has more than five digits
\* ("400000").
SiblingSegments == {0, 1, 400000}

\* The paths of the other invocation (lines 127-134).
sibling_gz_filepath == GzPath(sibling[1].date, sibling[1].segment)
sibling_parquet_filepath == ParquetPath(sibling[1].date, sibling[1].segment)

\* main is about to call process_segment for one segment of a manifest of
\* MaxPaths lines, while another process runs process_segment for another
\* (epoch, segment) pair on the same output_dir and has just called
\* download_file.
InitPair ==
    /\ OrchestratorNotStarted
    /\ crawl_date = ProcCrawlDate
    /\ wet_paths = Some(Manifest(MaxPaths))
    /\ postcode_lookup = Some({PcBS1})
    /\ segment_numbers \in {<<sg>> : sg \in 0..(MaxPaths - 1)}
    /\ max_retries = DefaultMaxRetries
    /\ initial_delay = DefaultRetryDelay
    /\ ppc = "main"
    /\ seg_ix = 1
    /\ successful_segments = 0
    /\ attempt = 0
    /\ retry_delay = 0
    /\ waits = <<>>
    /\ download_ok = Nothing
    /\ downloaded = Nothing
    /\ results = <<>>
    /\ returns = <<>>
    /\ exit_code = None
    /\ fs = <<>>
    /\ call_log = <<>>
    /\ free_gb = Some(MinGb)
    /\ main_log = <<<<"check_disk_space", MinGb>>>>
    /\ keep_running = TRUE
    /\ hb_pc = "while"
    /\ \E d \in SiblingDates : \E sg \in SiblingSegments :
          /\ <<d, sg>> # <<crawl_date, segment_numbers[1]>>
          /\ sibling = Some([date |-> d, segment |-> sg, pc |-> "download"])

\* What no step of the other process touches but the shared output_dir.
siblingFrame == <<orchVars, procInputs, ppc, seg_ix, successful_segments, attempt,
                  retry_delay, waits, download_ok, downloaded, results, returns,
                  exit_code, call_log, free_gb, main_log, keep_running, hb_pc>>

\* Lines 43-58 in the other process: an attempt fails, leaving its file as it
\* was or half written; download_file tries again, or it was the last attempt
\* and process_segment returns False.
SiblingDownloadFails ==
    /\ sibling # Nothing
    /\ sibling[1].pc = "download"
    /\ fs' \in {fs, WriteFile(fs, sibling_gz_filepath, PartialFile)}
    /\ \E pc \in {"download", "returned"} :
          sibling' = Some([sibling[1] EXCEPT !.pc = pc])
    /\ UNCHANGED siblingFrame

\* Lines 43-50 in the other process: the download succeeds.
SiblingDownloadOk ==
    /\ sibling # Nothing
    /\ sibling[1].pc = "download"
    /\ fs' = WriteFile(fs, sibling_gz_filepath, WetFile)
    /\ sibling' = Some([sibling[1] EXCEPT !.pc = "persist"])
    /\ UNCHANGED siblingFrame

\* Lines 79-110 in the other process: its archive gives rows and they are
\* written, or it gives none and nothing is written.
SiblingPersist ==
    /\ sibling # Nothing
    /\ sibling[1].pc = "persist"
    /\ fs' \in {fs, WriteFile(fs, sibling_parquet_filepath, ParquetFile(StaleRows))}
    /\ sibling' = Some([sibling[1] EXCEPT !.pc = "cleanup"])
    /\ UNCHANGED siblingFrame

\* Lines 105-107 and 151-153 in the other process: df.to_parquet raises and
\* process_segment returns False.
SiblingPersistRaises ==
    /\ sibling # Nothing
    /\ sibling[1].pc = "persist"
    /\ fs' \in {fs, WriteFile(fs, sibling_parquet_filepath, PartialFile)}
    /\ sibling' = Some([sibling[1] EXCEPT !.pc = "returned"])
    /\ UNCHANGED siblingFrame

\* Lines 144-149 in the other process: it removes its downloaded file.
SiblingCleanup ==
    /\ sibling # Nothing
    /\ sibling[1].pc = "cleanup"
    /\ fs' = IF sibling_gz_filepath \in DOMAIN fs
             THEN RemoveFile(fs, sibling_gz_filepath) ELSE fs
    /\ sibling' = Some([sibling[1] EXCEPT !.pc = "returned"])
    /\ UNCHANGED siblingFrame

\* A step of the other process.
SiblingStep ==
    \/ SiblingDownloadFails
    \/ SiblingDownloadOk
    \/ SiblingPersist
    \/ SiblingPersistRaises
    \/ SiblingCleanup

\* A step of this process's process_segment call.
CallStep ==
    \/ ResolveOk
    \/ DownloadOk
    \/ DownloadFailsRetry
    \/ DownloadFailsLast
    \/ Extract
    \/ PersistWrite
    \/ PersistRaises
    \/ PersistSkip
    \/ Cleanup

NextPair == CallStep \/ SiblingStep

SpecPair == InitPair /\ [][NextPair]_vars

\* The two paths of this process's call for its one segment, and those of the
\* other process's call.
OwnPaths == {GzPath(crawl_date, segment_numbers[1]),
             ParquetPath(crawl_date, segment_numbers[1])}
SiblingPaths == {sibling_gz_filepath, sibling_parquet_filepath}

\* The file at path p of f, or Nothing.
FileAt(f, p) == IF p \in DOMAIN f THEN Some(f[p]) ELSE Nothing

\* C24: two process_segment calls for different (epoch, segment) pairs that
\* run at the same time on one output_dir have four different paths (each its
\* temporary download path and its artifact path), and whatever the
\* interleaving, a step of one call creates, overwrites or deletes a file
\* only at one of its own two paths, never at a path of the other call.  (A
\* step of this process moves its position, its attempt count or its log; a
\* step of the other process leaves them alone.)
C24_NoWriteConflicts ==
    /\ [](Cardinality(OwnPaths \cup SiblingPaths) = 4)
    /\ [][\A p \in DOMAIN fs \cup DOMAIN fs' :
            FileAt(fs', p) # FileAt(fs, p) =>
                IF <<ppc', attempt', call_log'>> = <<ppc, attempt, call_log>>
                THEN p \in SiblingPaths /\ p \notin OwnPaths
                ELSE p \in OwnPaths /\ p \notin SiblingPaths]_vars

\* C24 witness: segment 0 of epoch 202104 and segment 400000 of epoch 20210 are
\* both between their download and their cleanup: both temporary files and
\* both artifacts exist side by side.
C24_Witness ==
    /\ ppc = "cleanup"
    /\ segment_numbers = <<0>>
    /\ sibling = Some([date |-> <<"2","0","2","1","0">>, segment |-> 400000,
                       pc |-> "cleanup"])
    /\ DOMAIN fs = {GzPath(crawl_date, 0), ParquetPath(crawl_date, 0),
                    sibling_gz_filepath, sibling_parquet_filepath}
    /\ fs[ParquetPath(crawl_date, 0)] = ParquetFile(results)

(***************************************************************************)
(*                 Further properties of the processor                     *)
(***************************************************************************)

\* C25 (as stated): a call that has got to its download is a call for a
\* segment number of 0..len(manifest)-1, and the URL it fetches is the server
\* URL joined with the manifest line at that 0-based position; a segment
\* number outside this range, a negative one included, never gets to a
\* download.
C25_IndexResolution ==
    InCall =>
        /\ wet_paths # Nothing
        /\ segment_numbers[seg_ix] \in 0..(Len(wet_paths[1]) - 1)
        /\ call_log[1][1] = "download"
        /\ call_log[1][2] = FileUrl(wet_paths[1][segment_numbers[seg_ix] + 1])

\* Rows with the order of each row's postcodes list left out.
RowSets(rows) ==
    [k \in 1..Len(rows) |->
        [uri |-> rows[k].uri, website |-> rows[k].website, text |-> rows[k].text,
         postcodes |-> Range(rows[k].postcodes)]]

\* What process_wet_file may collect in another run of the same call that
\* downloaded the same archive and has the same lookup, whatever an earlier
\* run left in output_dir.
RerunResults ==
    UNION {ExtractResults(WriteFile(f, gz_filepath, WetFile), gz_filepath,
                          downloaded, postcode_lookup) :
              f \in InitialFiles(crawl_date)}

\* C26: when process_wet_file has finished for a downloaded archive, any other
\* run for the same segment, archive and lookup collects the same rows in the
\* same order, each with the same set of matched codes; when there are rows
\* the artifact at the segment's path holds exactly these rows, whatever was
\* at the path before; and when there are none, no run writes an artifact.
C26_Deterministic ==
    ppc = "cleanup" =>
        /\ \A r \in RerunResults : RowSets(r) = RowSets(results)
        /\ results # <<>> =>
              /\ Logged("to_parquet") = <<<<"to_parquet", parquet_filepath>>>>
              /\ fs[parquet_filepath] = ParquetFile(results)
        /\ results = <<>> => Logged("to_parquet") = <<>>

\* C26 witness: the run found an artifact of an earlier run and has replaced
\* it by a row with two matched codes, which another run may list in the
\* other order.
C26_Witness ==
    /\ ppc = "cleanup"
    /\ Len(results) = 1
    /\ Len(results[1].postcodes) = 2
    /\ fs[parquet_filepath] = ParquetFile(results)
    /\ \E r \in RerunResults : r # results
    /\ \E k \in 1..Len(call_log) : call_log[k][1] = "to_parquet"
    /\ StaleRows # results

(***************************************************************************)
(*               Further properties of the orchestrator                    *)
(***************************************************************************)

\* C27: the epochs are handled one by one in list order.  The c-th sbatch call
\* is the one of epoch c, so no epoch is submitted twice or out of turn; the
\* j-th job is the one built from the j-th crawl date and file count; in a
\* dry run the k-th script written is the one of epoch k and nothing is
\* submitted; the job ids collected are those of epochs 1..i-1 in order; and
\* the list returned has one entry for each epoch, in list order: the id of
\* its job, or None in a dry run.
C27_EpochOrder ==
    /\ \A c \in 1..Len(sbatch_calls) : sbatch_calls[c].epoch = c
    /\ \A j \in 1..Len(jobs) :
          /\ sbatch_calls[j].accepted
          /\ jobs[j].job_name = JobName(crawl_dates[j])
          /\ jobs[j].cmd = [date |-> crawl_dates[j], n_files |-> n_files_list[j],
                            segments_per_task |-> segments_per_task]
    /\ opc \in {"for", "sbatch", "returned"} =>
          Len(sbatch_calls) = IF dry_run THEN 0 ELSE i - 1
    /\ opc \in {"poll", "sleep"} => Len(sbatch_calls) = i
    /\ dry_run =>
          script_writes = [k \in 1..(i - 1) |-> ScriptPath(crawl_dates[k])]
    /\ ~dry_run => script_writes = <<>>
    /\ completed_job_ids = [k \in 1..(i - 1) |-> IF dry_run THEN None ELSE k]
    /\ opc = "returned" =>
          /\ i = NumEpochs + 1
          /\ Len(crawl_dates) = NumEpochs
          /\ returned = Some(completed_job_ids)
          /\ Len(returned[1]) = Len(crawl_dates)
          /\ ~dry_run => Len(jobs) = Len(crawl_dates)

\* C27 witness: a run over two different epochs has returned the ids of its
\* two jobs, submitted in list order.
C27_Witness ==
    /\ opc = "returned"
    /\ ~dry_run
    /\ crawl_dates = <<"202110", "202104">>
    /\ returned = Some(<<1, 2>>)
    /\ jobs[1].job_name = JobName("202110")
    /\ jobs[2].job_name = JobName("202104")

(***************************************************************************)
(*     PART V.  The epoch manifest: runner main and progress-dashboard     *)
(***************************************************************************)

\* ---- str methods the two parsers use ---------------------------------------
\* Characters str.strip() and str.split() take for whitespace.
WhitespaceChars == {" ", "\t", "\n"}

RECURSIVE lstrip(_)
lstrip(s) ==
    IF s # <<>> /\ Head(s) \in WhitespaceChars THEN lstrip(Tail(s)) ELSE s

RECURSIVE rstrip(_)
rstrip(s) ==
    IF s # <<>> /\ s[Len(s)] \in WhitespaceChars
    THEN rstrip(SubSeq(s, 1, Len(s) - 1)) ELSE s

\* s.strip()
strip(s) == rstrip(lstrip(s))

\* s.split() from the rest of s on, with the word being read and the words read.
RECURSIVE SplitFrom(_, _, _)
SplitFrom(s, word, acc) ==
    IF s = <<>> THEN (IF word = <<>> THEN acc ELSE Append(acc, word))
    ELSE IF Head(s) \in WhitespaceChars
         THEN SplitFrom(Tail(s), <<>>, IF word = <<>> THEN acc ELSE Append(acc, word))
    ELSE SplitFrom(Tail(s), Append(word, Head(s)), acc)

\* s.split()
split(s) == SplitFrom(s, <<>>, <<>>)

\* s.isdigit() for ASCII text
isdigit(s) == s # <<>> /\ \A k \in 1..Len(s) : s[k] \in Range(DigitChars)

\* The number a string of decimal digits stands for.
RECURSIVE DigitsValue(_)
DigitsValue(s) ==
    IF s = <<>> THEN 0
    ELSE DigitsValue(SubSeq(s, 1, Len(s) - 1)) * 10
            + (CHOOSE d \in 0..9 : DigitChars[d + 1] = s[Len(s)])

\* int(s) for a string without whitespace or underscores: Some(value), or
\* Nothing when int raises ValueError.
int(s) ==
    IF isdigit(s) THEN Some(DigitsValue(s))
    ELSE IF Len(s) > 1 /\ s[1] = "+" /\ isdigit(Tail(s)) THEN Some(DigitsValue(Tail(s)))
    ELSE IF Len(s) > 1 /\ s[1] = "-" /\ isdigit(Tail(s))
         THEN Some(0 - DigitsValue(Tail(s)))
    ELSE Nothing

\* ---- manifests --------------------------------------------------------------
\* Longest crawl dates file (lines).
MaxManifestLines == 2

\* "20210": an epoch id that is a prefix of "202104".
PrefixCrawlDate == <<"2","0","2","1","0">>

\* Lines of a crawl dates file, each with its newline: "202104 2", "20210 1",
\* a comment, a blank line, an indented comment " #x 1", a count with a sign
\* "202104 +1", a count that is no number "202104 x", and a line of one field.
EpochLines ==
    { ProcCrawlDate \o <<" ","2","\n">>,
      PrefixCrawlDate \o <<" ","1","\n">>,
      <<"#"," ","c"," ","1","\n">>,
      <<"\n">>,
      <<" ","#","x"," ","1","\n">>,
      ProcCrawlDate \o <<" ","+","1","\n">>,
      ProcCrawlDate \o <<" ","x","\n">>,
      ProcCrawlDate \o <<"\n">> }

\* The lists main uses when there is no crawl dates file (lines 205-206).
DefaultCrawlDates ==
    <<"202104", "202110", "202117", "202121", "202125", "202131", "202139",
      "202143", "202149">>
DefaultNFilesList == <<79840, 64000, 64000, 64000, 64000, 72000, 72000, 72000, 64000>>

\* What reading a manifest gives: the (epoch id, count) pairs, unless int
\* raised ValueError on the way.
Parsed(dates, counts) == [raised |-> FALSE, dates |-> dates, counts |-> counts]
ParseRaised == [raised |-> TRUE, dates |-> <<>>, counts |-> <<>>]

\* Runner lines 197-202 from line k on: blank lines and lines whose first
\* character is '#' are skipped; the others are stripped and split, and give
\* a pair when they have two fields or more.
RECURSIVE RunnerPairsFrom(_, _, _, _)
RunnerPairsFrom(lines, k, dates, counts) ==
    IF k > Len(lines) THEN Parsed(dates, counts)
    ELSE IF strip(lines[k]) # <<>> /\ ~StartsWith(lines[k], <<"#">>)
              /\ Len(split(strip(lines[k]))) >= 2
         THEN LET parts == split(strip(lines[k]))
              IN  IF int(parts[2]) = Nothing THEN ParseRaised
                  ELSE RunnerPairsFrom(lines, k + 1, Append(dates, parts[1]),
                                       Append(counts, int(parts[2])[1]))
    ELSE RunnerPairsFrom(lines, k + 1, dates, counts)

\* Dashboard lines 66-72 from line k on: every line is stripped first; empty
\* ones and those that then start with '#' are skipped; the others are split
\* and give a pair when they have two fields or more.
RECURSIVE TrackerPairsFrom(_, _, _, _)
TrackerPairsFrom(lines, k, dates, counts) ==
    IF k > Len(lines) THEN Parsed(dates, counts)
    ELSE IF strip(lines[k]) # <<>> /\ ~StartsWith(strip(lines[k]), <<"#">>)
              /\ Len(split(strip(lines[k]))) >= 2
         THEN LET parts == split(strip(lines[k]))
              IN  IF int(parts[2]) = Nothing THEN ParseRaised
                  ELSE TrackerPairsFrom(lines, k + 1, Append(dates, parts[1]),
                                        Append(counts, int(parts[2])[1]))
    ELSE TrackerPairsFrom(lines, k + 1, dates, counts)

\* Dashboard lines 39-48: the sum of the second fields that are all digits, of
\* the lines that are neither empty nor comments once stripped.
RECURSIVE get_total_segments(_, _)
get_total_segments(lines, k) ==
    IF k > Len(lines) THEN 0
    ELSE (IF strip(lines[k]) # <<>> /\ ~StartsWith(strip(lines[k]), <<"#">>)
             /\ Len(split(strip(lines[k]))) >= 2
             /\ isdigit(split(strip(lines[k]))[2])
          THEN DigitsValue(split(strip(lines[k]))[2]) ELSE 0)
         + get_total_segments(lines, k + 1)

\* ---- the output directory the aggregator looks at ------------------------------
\* A file of zero bytes.
EmptyFile == [kind |-> "empty", rows |-> <<>>]

\* os.path.getsize(filepath) > 0
NonEmpty(file) == file.kind # "empty"

\* Segments whose artifacts earlier processor invocations may have left.
ArtifactSegments == 0..1

\* output_dir after processor invocations for epochs 202104 and 20210: any of
\* the artifacts of segments 0 and 1 of the first and of segment 0 of the
\* second; or, for segment 0 of 202104, a file of zero bytes, a truncated one,
\* or the artifact beside the temporary file of segment 1.
OutputDirs ==
    {[p \in S |-> ParquetFile(StaleRows)] :
        S \in SUBSET ({ParquetPath(ProcCrawlDate, n) : n \in ArtifactSegments}
                      \cup {ParquetPath(PrefixCrawlDate, 0)})}
    \cup {WriteFile(<<>>, ParquetPath(ProcCrawlDate, 0), EmptyFile),
          WriteFile(<<>>, ParquetPath(ProcCrawlDate, 0), PartialFile),
          WriteFile(WriteFile(<<>>, ParquetPath(ProcCrawlDate, 0),
                              ParquetFile(StaleRows)),
                    GzPath(ProcCrawlDate, 1), WetFile)}

\* Dashboard lines 75-81: the files of output_dir whose name starts with
\* 'crawldata' + date and ends with '.parquet' and that are not empty.
processed_count(f, date) ==
    Cardinality({p \in DOMAIN f :
                    /\ StartsWith(p, <<"c","r","a","w","l","d","a","t","a">> \o date)
                    /\ EndsWith(p, ParquetExt)
                    /\ NonEmpty(f[p])})

\* How get_current_crawl_date ends.
Returned(date) == [raised |-> FALSE, date |-> date]
TrackerRaised == [raised |-> TRUE, date |-> Nothing]

\* Dashboard lines 66-86 from line k on: the first epoch whose processed count
\* is below its expected count is returned; None after the last line; int
\* raises ValueError on a count that is no number.
RECURSIVE get_current_crawl_date(_, _, _)
get_current_crawl_date(lines, k, f) ==
    IF k > Len(lines) THEN Returned(Nothing)
    ELSE IF strip(lines[k]) # <<>> /\ ~StartsWith(strip(lines[k]), <<"#">>)
              /\ Len(split(strip(lines[k]))) >= 2
         THEN LET parts == split(strip(lines[k]))
              IN  IF int(parts[2]) = Nothing THEN TrackerRaised
                  ELSE IF processed_count(f, parts[1]) < int(parts[2])[1]
                       THEN Returned(Some(parts[1]))
                  ELSE get_current_crawl_date(lines, k + 1, f)
    ELSE get_current_crawl_date(lines, k + 1, f)

\* ---- steps -------------------------------------------------------------------
\* The runner's main is about to read its crawl dates file; the aggregator
\* looks at the same file and at the output directory of the processor.
InitDash ==
    /\ crawl_dates = <<>>
    /\ n_files_list = <<>>
    /\ segments_per_task = 1
    /\ dry_run = FALSE
    /\ opc = "main"
    /\ i = 1
    /\ slurm = Nothing
    /\ job_id = Nothing
    /\ completed_job_ids = <<>>
    /\ returned = Nothing
    /\ error = None
    /\ jobs = <<>>
    /\ live = {}
    /\ sbatch_calls = <<>>
    /\ observed = [k \in 1..MaxEpochs |-> {}]
    /\ last_result = None
    /\ array_tasks = <<>>
    /\ generated_scripts = <<>>
    /\ script_writes = <<>>
    /\ crawl_dates_file \in
          {Nothing} \cup {Some(l) : l \in SeqsUpTo(EpochLines, MaxManifestLines)}
    /\ total_segments = Nothing
    /\ current_crawl_date = Nothing
    /\ crawl_date = None
    /\ wet_paths = Nothing
    /\ postcode_lookup = Nothing
    /\ segment_numbers = <<>>
    /\ max_retries = 0
    /\ initial_delay = 0
    /\ ppc = "not started"
    /\ seg_ix = 1
    /\ successful_segments = 0
    /\ attempt = 0
    /\ retry_delay = 0
    /\ waits = <<>>
    /\ download_ok = Nothing
    /\ downloaded = Nothing
    /\ results = <<>>
    /\ returns = <<>>
    /\ exit_code = None
    /\ fs \in OutputDirs
    /\ call_log = <<>>
    /\ free_gb = Nothing
    /\ main_log = <<>>
    /\ keep_running = TRUE
    /\ hb_pc = "not started"
    /\ sibling = Nothing

\* Everything but what the three steps below set.
dashFrame == <<segments_per_task, dry_run, i, slurm, job_id, completed_job_ids,
               returned, schedVars, scriptVars, crawl_dates_file, procVars>>

\* Runner lines 193-206: main reads the crawl dates file into crawl_dates and
\* n_files_list, or takes the default lists when there is no file; a ValueError
\* of int leaves main.
LoadCrawlDates ==
    /\ opc = "main"
    /\ IF crawl_dates_file = Nothing
       THEN /\ crawl_dates' = DefaultCrawlDates
            /\ n_files_list' = DefaultNFilesList
            /\ opc' = "for"
            /\ UNCHANGED error
       ELSE LET read == RunnerPairsFrom(crawl_dates_file[1], 1, <<>>, <<>>)
            IN  IF read.raised
                THEN /\ opc' = "raised"
                     /\ error' = "ValueError"
                     /\ UNCHANGED <<crawl_dates, n_files_list>>
                ELSE /\ crawl_dates' = read.dates
                     /\ n_files_list' = read.counts
                     /\ opc' = "for"
                     /\ UNCHANGED error
    /\ UNCHANGED <<dashFrame, total_segments, current_crawl_date>>

\* Dashboard lines 37-48: ProgressTracker.get_total_segments is called.
GetTotalSegments ==
    /\ total_segments = Nothing
    /\ total_segments' =
          Some(IF crawl_dates_file = Nothing THEN 0
               ELSE get_total_segments(crawl_dates_file[1], 1))
    /\ UNCHANGED <<dashFrame, crawl_dates, n_files_list, opc, error,
                   current_crawl_date>>

\* Dashboard lines 61-86: ProgressTracker.get_current_crawl_date is called.
GetCurrentCrawlDate ==
    /\ current_crawl_date = Nothing
    /\ current_crawl_date' =
          Some(IF crawl_dates_file = Nothing THEN Returned(Nothing)
               ELSE get_current_crawl_date(crawl_dates_file[1], 1, fs))
    /\ UNCHANGED <<dashFrame, crawl_dates, n_files_list, opc, error,
                   total_segments>>

NextDash == LoadCrawlDates \/ GetTotalSegments \/ GetCurrentCrawlDate

SpecDash == InitDash /\ [][NextDash]_vars

\* C28 (as stated): when the orchestrator and the aggregator have both read a
\* crawl dates file, the orchestrator has the (epoch id, count) pairs the
\* aggregator derives from it, having skipped the same lines, and the
\* aggregator's total is the sum of the counts the orchestrator will submit.
C28_ManifestParsedAlike ==
    (crawl_dates_file # Nothing /\ opc # "main" /\ total_segments # Nothing) =>
        /\ opc = "for"
        /\ TrackerPairsFrom(crawl_dates_file[1], 1, <<>>, <<>>)
              = Parsed(crawl_dates, n_files_list)
        /\ total_segments[1] = SumSeq(n_files_list)

\* The non-empty artifacts in f that processor invocations for epoch `date`
\* wrote: those at the artifact paths of its segments.
ArtifactsOf(f, date) ==
    {p \in DOMAIN f :
        /\ \E n \in ArtifactSegments : p = ParquetPath(date, n)
        /\ NonEmpty(f[p])}

\* C29 (as stated): for every epoch of the manifest the processed count is the
\* number of non-empty artifacts of that epoch, with none of another epoch
\* among them, and get_current_crawl_date has returned the first epoch in
\* manifest order with fewer such artifacts than its expected count, or None
\* when there is no such epoch.
C29_EpochCompletion ==
    (/\ crawl_dates_file # Nothing
     /\ current_crawl_date # Nothing
     /\ ~TrackerPairsFrom(crawl_dates_file[1], 1, <<>>, <<>>).raised) =>
        LET pairs == TrackerPairsFrom(crawl_dates_file[1], 1, <<>>, <<>>)
            open == {k \in 1..Len(pairs.dates) :
                        Cardinality(ArtifactsOf(fs, pairs.dates[k])) < pairs.counts[k]}
        IN  /\ \A k \in 1..Len(pairs.dates) :
                  processed_count(fs, pairs.dates[k])
                      = Cardinality(ArtifactsOf(fs, pairs.dates[k]))
            /\ ~current_crawl_date[1].raised
            /\ current_crawl_date[1].date =
                  IF open = {} THEN Nothing ELSE Some(pairs.dates[SetMin(open)])

\* ---- the orchestrator under fairness -----------------------------------------
\* The orchestrator keeps taking its steps (a sleep ends, a call returns);
\* every live job eventually leaves the scheduler's queue; and of the status
\* queries made again and again, some return a listing.
\* Every step of the orchestrator changes opc or i and every step of the
\* scheduler changes live: the fairness conditions are subscripted by these.
orchProgress == <<opc, i, live>>

SpecRunFair ==
    /\ SpecRun
    /\ WF_orchProgress(OrchestratorStep)
    /\ WF_orchProgress(JobFinishes)
    /\ SF_orchProgress(Poll /\ last_result' = "listing")

\* C30 (as stated): every fair run that is not a dry run and has
\* segments_per_task # 0 terminates having submitted every epoch.
C30_TerminatesHavingSubmittedAll ==
    (~dry_run /\ segments_per_task # 0) =>
        <>(opc = "returned" /\ Len(jobs) = NumEpochs)

\* C30 (amended): every fair run terminates, by returning or by raising.  It
\* raises only on the ZeroDivisionError of segments_per_task = 0 or on a
\* rejected submission; a run that is not a dry run returns only when a job
\* has been submitted for every epoch; so a run with segments_per_task # 0,
\* not a dry run, none of whose submissions is rejected, terminates having
\* submitted every epoch.  The polling loop has no bound: a query that lists
\* the job, or fails with another exception than a non-zero squeue exit, is
\* followed by a sleep and another query for the same epoch, however many
\* were made before.
C30_TerminatesUnlessRejected ==
    /\ <>(opc \in {"returned", "raised"})
    /\ [](opc = "raised" =>
            \/ error = "ZeroDivisionError" /\ segments_per_task = 0
            \/ /\ error = "SbatchError"
               /\ ~sbatch_calls[Len(sbatch_calls)].accepted)
    /\ []((opc = "returned" /\ ~dry_run) =>
            /\ Len(jobs) = NumEpochs
            /\ \A c \in 1..Len(sbatch_calls) : sbatch_calls[c].accepted)
    /\ [][(opc = "poll" /\ opc' # "poll"
           /\ (last_result' = "Exception"
               \/ (last_result' = "listing" /\ job_id[1] \in live)))
          => (opc' = "sleep" /\ i' = i /\ job_id' = job_id)]_vars
    /\ [][(opc = "sleep" /\ opc' # "sleep") => (opc' = "poll" /\ i' = i)]_vars

\* C30 witness: a run of two epochs has returned after it was told that the
\* first job was still listed, slept, got an exception from a later query,
\* slept again, and at last found the job gone.
C30_Witness ==
    /\ opc = "returned"
    /\ ~dry_run
    /\ NumEpochs = 2
    /\ Len(jobs) = 2
    /\ {"present", "Exception", "absent"} \subseteq observed[1]
    /\ "CalledProcessError" \notin observed[1] \cup observed[2]

\* ---- the exit code ------------------------------------------------------------
\* C31: once the disk check has passed, a processor that has exited has
\* attempted every one of its segments and has exited with code 0, whatever
\* the process_segment calls returned: successful_segments, which counts the
\* calls that returned True, may be anything from 0 to the number of segments.
C31_ExitCodeIgnoresSegmentOutcomes ==
    (ppc = "exit" /\ free_gb # Nothing /\ check_disk_space(free_gb[1], MinGb)) =>
        /\ exit_code = 0
        /\ Len(returns) = Len(segment_numbers)
        /\ successful_segments = Cardinality({k \in 1..Len(returns) : returns[k]})
        /\ successful_segments \in 0..Len(segment_numbers)

\* C31 witness: a task of two segments has exited with code 0 although both
\* of its process_segment calls returned False.
C31_Witness ==
    /\ ppc = "exit"
    /\ exit_code = 0
    /\ Len(segment_numbers) = 2
    /\ returns = <<FALSE, FALSE>>
    /\ successful_segments = 0

=============================================================================
